---- MODULE Spec2Model ----
(***************************************************************************)
(* STATAU: the estimation core and the specification tests                 *)
(* (core/models.py), the merged result table (core/table_generator.py),    *)
(* the per-caller result list of the analysis routes                       *)
(* (blueprints/analysis.py), the upload folder                             *)
(* (services/file_service.py), the e-mail verification codes               *)
(* (services/email_service.py, blueprints/auth.py) and the user            *)
(* administration (blueprints/admin.py).                                   *)
(*                                                                         *)
(* A data frame is the sequence of the row labels (positions in `data`)    *)
(* it holds, in order, plus its set of columns; a cell is NA or a value.   *)
(* The numerical libraries (statsmodels, linearmodels) are outside the     *)
(* repository: what they are called with is recorded in `result`, and      *)
(* whether they raise, and which regressors PanelOLS absorbs, is a         *)
(* nondeterministic input of the fit.  Requests name only columns of the   *)
(* dataset, none of them called 'const', 'Intercept' or 'Constant'.  The   *)
(* session returns the result list as it was stored.                       *)
(***************************************************************************)
EXTENDS Integers, Sequences, FiniteSets, TLC

VARIABLES
    data,          \* StataModel.data: the rows of the dataset
    y_var,         \* StataModel.y_var
    x_vars,        \* StataModel.x_vars
    method,        \* StataModel.method
    panel_ids,     \* StataModel.panel_ids: [entity, time]
    fe_vars,       \* StataModel.fe_vars
    se_options,    \* StataModel.se_options: [type, cluster_var]
    result,        \* StataModel.result
    model_stats,   \* StataModel.model_stats
    custom_html,   \* StataModel.custom_html
    df_clean,      \* the frame _fit_regression hands to the estimator method
    sample,        \* the frame the estimator was built on
    raised,        \* the exception fit() ended with, or "none"
    coeffs,        \* the keys of get_coeffs_dataframe's coefficient dict, in order
    pc,            \* "constructed", "fitted", "extracted"
    analysis_results,  \* session['analysis_results'] of the caller
    request,       \* the options of the last /analyze request
    export_options,    \* the export_options list of that request, after the call
    response,      \* what the last request returned
    test_args,     \* decimals and sigmamore of a /f_test or /hausman_test request
    test_result,   \* what ModelTests returned for it
    uploads,       \* the upload folder: file name -> content of the file
    sessions,      \* caller -> that caller's session['analysis_results']
    replies,       \* caller -> what that caller's last request returned
    solo,          \* folder, list and reply of caller "a" had only "a" made requests
    basic_args,    \* desc_options, merge_freq_tables, group_var and fit()'s decimals
    _verification_codes,   \* EmailService._verification_codes: address -> entry
    now,           \* datetime.now(), in minutes
    threads,       \* request thread -> where it is between verify_code and clear_code
    passes,        \* per code sent, in order: how many requests it let pass
    users,         \* the user table: id -> row
    admin_reply    \* the last admin request and the status it returned

modelvars == <<data, y_var, x_vars, method, panel_ids, fe_vars, se_options, result,
               model_stats, custom_html, df_clean, sample, raised, coeffs, pc>>

sessionvars == <<analysis_results, request, export_options, response>>

testvars == <<test_args, test_result>>

callervars == <<uploads, sessions, replies, solo>>

servicevars == <<basic_args, _verification_codes, now, threads, passes, users, admin_reply>>

othervars == <<testvars, callervars, servicevars>>

vars == <<modelvars, sessionvars, testvars, callervars, servicevars>>

----------------------------------------------------------------------------
(* Bounds and input domains *)

MaxRows == 3

NA == "NA"
None == "None"
Columns == {"y", "x1", "id", "year", "g"}
Entities == {"e1", "e2"}

Range(s) == {s[i] : i \in 1..Len(s)}

\* A row: one cell per column; the cells in `miss` are missing.
Row(miss, e) ==
    [c \in Columns |-> IF c \in miss THEN NA ELSE IF c = "id" THEN e ELSE "v"]

\* Complete rows of either entity, and rows of e1 with one missing cell.
RowKinds == {Row({}, e) : e \in Entities} \cup {Row({c}, "e1") : c \in Columns}

SeqsUpTo(S, n) == UNION {[1..k -> S] : k \in 0..n}

Datasets == SeqsUpTo(RowKinds, MaxRows)

\* Python truthiness of an optional column name
Truthy(c) == c # None /\ c # ""

----------------------------------------------------------------------------
(* Data preparation *)

Frame(rows, columns) == [rows |-> rows, columns |-> columns]

EmptyFrame == Frame(<<>>, {})

\* df[cols].dropna(): the rows with no missing cell in cols, in order
dropna(rows, cols) ==
    Frame(SelectSeq(rows, LAMBDA i : \A c \in cols : data[i][c] # NA), cols)

\* df.groupby(col)[col].transform('count') at row i: the number of rows of the
\* frame with i's (non-missing) value of col; NaN, which compares False, for a
\* row whose value of col is missing (0 here)
GroupCount(df, col, i) ==
    IF data[i][col] = NA THEN 0
    ELSE Cardinality({k \in 1..Len(df.rows) : data[df.rows[k]][col] = data[i][col]})

drop_singletons_keep_all(df, entity_col) ==
    IF ~Truthy(entity_col) \/ entity_col \notin df.columns THEN df
    ELSE Frame(SelectSeq(df.rows, LAMBDA i : GroupCount(df, entity_col, i) > 0),
               df.columns)

drop_singletons_func(df, entity_col) ==
    IF ~Truthy(entity_col) \/ entity_col \notin df.columns THEN df
    ELSE Frame(SelectSeq(df.rows, LAMBDA i : GroupCount(df, entity_col, i) > 1),
               df.columns)

\* cols of _fit_regression: y, x, fe, then cluster_var, entity, time when given
RegressionColsNoPanel(y, x, fe, se, ids) ==
    {c \in {y} \cup Range(x) : Truthy(c)}

RegressionCols(y, x, fe, se, ids) ==
    {c \in {y} \cup Range(x) \cup Range(fe)
           \cup {se.cluster_var, ids.entity, ids.time} : Truthy(c)}

----------------------------------------------------------------------------
(* Estimators *)

NoResult ==
    [estimator |-> None, entity_effects |-> FALSE, time_effects |-> FALSE,
     other_effects |-> {}, cov_type |-> None, cluster |-> {}, params |-> <<>>,
     nobs |-> 0]

\* model_stats: {} until a fit succeeds; then one value per key, N the row count
\* and every other statistic the library's number, in thousandths
NoStats == [k \in {} |-> 0]

LibStat(key) ==
    CASE key = "R2" -> 512 [] key = "Adj-R2" -> 487 [] key = "F" -> 12346
      [] key = "AIC" -> 34568 [] key = "Pseudo-R2" -> 231 [] OTHER -> 8123

Stats(keys, nobs) == [k \in keys |-> IF k = "N" THEN nobs ELSE LibStat(k)]

\* What one call of fit() leaves behind
Outcome(res, stats, df, smp, exc) ==
    [result |-> res, model_stats |-> stats, df_clean |-> df, sample |-> smp,
     raised |-> exc]

\* An exception leaves self.result and self.model_stats as they were
Raise(df, smp, exc) == Outcome(result, model_stats, df, smp, exc)

\* [v for v in self.x_vars if v != self.y_var]
exog_cols(x, y) == SelectSeq(x, LAMBDA v : v # y)

\* the named column passed as clusters next to the entity / time switch
PanelCovBoth(se, entity_col, time_col) ==
    IF se.type = "robust" THEN [cov_type |-> "robust", cluster |-> {}]
    ELSE IF se.type = "cluster" THEN
        [cov_type |-> "clustered",
         cluster |-> (IF se.cluster_var = entity_col THEN {"cluster_entity"} ELSE {})
                     \cup (IF se.cluster_var = time_col THEN {"cluster_time"} ELSE {})
                     \cup {"clusters"}]
    ELSE [cov_type |-> "unadjusted", cluster |-> {}]

\* fit_kwargs of the three panel estimators
PanelCov(se, entity_col, time_col) ==
    IF se.type = "robust" THEN [cov_type |-> "robust", cluster |-> {}]
    ELSE IF se.type = "cluster" THEN
        [cov_type |-> "clustered",
         cluster |-> IF se.cluster_var = entity_col THEN {"cluster_entity"}
                     ELSE IF se.cluster_var = time_col THEN {"cluster_time"}
                     ELSE {"clusters"}]
    ELSE [cov_type |-> "unadjusted", cluster |-> {}]

\* df_panel[c_var] of the clusters branch raises KeyError when no column is named
ClustersKeyError(se, entity_col, time_col, df) ==
    /\ se.type = "cluster"
    /\ se.cluster_var # entity_col
    /\ se.cluster_var # time_col
    /\ se.cluster_var \notin df.columns

MissingIdsEntityOnly(entity_col, time_col) == ~Truthy(entity_col)

\* if not entity_col or not time_col
MissingIds(entity_col, time_col) == ~Truthy(entity_col) \/ ~Truthy(time_col)

PanelStatKeys == {"N", "R2", "Adj-R2", "F"}

\* The entity/time/other effects the fe_vars loop switches on
FeEffects(fe, entity_col, time_col) ==
    [entity_effects |-> \E k \in 1..Len(fe) : fe[k] = entity_col,
     time_effects |-> \E k \in 1..Len(fe) : fe[k] # entity_col /\ fe[k] = time_col,
     other_effects |-> {fe[k] : k \in {j \in 1..Len(fe) :
                                         fe[j] # entity_col /\ fe[j] # time_col}}]

\* lib: [ok, absorbed]: whether the library call returns, and the regressors
\* PanelOLS(drop_absorbed=True) drops
_fit_fixed_effects(df, entity_col, time_col, lib) ==
    IF MissingIds(entity_col, time_col) THEN Raise(df, EmptyFrame, "ValueError:ID")
    ELSE
      LET d    == drop_singletons_func(df, entity_col)
          exog == exog_cols(x_vars, y_var)
          eff  == FeEffects(fe_vars, entity_col, time_col)
          cov  == PanelCov(se_options, entity_col, time_col)
          anyeff == eff.entity_effects \/ eff.time_effects \/ eff.other_effects # {}
          kept == IF anyeff THEN SelectSeq(exog, LAMBDA v : v \notin lib.absorbed)
                  ELSE exog
          params == IF exog = <<>> THEN <<"const">> ELSE kept
      IN  IF ClustersKeyError(se_options, entity_col, time_col, d)
          THEN Raise(df, d, "KeyError")
          ELSE IF \/ ~lib.ok
                  \/ d.rows = <<>>
                  \/ (exog # <<>> /\ kept = <<>>)
          THEN Raise(df, d, "LibraryError")
          ELSE Outcome([estimator |-> "PanelOLS",
                        entity_effects |-> eff.entity_effects,
                        time_effects |-> eff.time_effects,
                        other_effects |-> eff.other_effects,
                        cov_type |-> cov.cov_type, cluster |-> cov.cluster,
                        params |-> params, nobs |-> Len(d.rows)],
                       Stats(PanelStatKeys, Len(d.rows)),
                       df, d, "none")

\* RandomEffects / PooledOLS on add_constant(exog)
PanelWithConstant(name, df, entity_col, time_col, lib) ==
    IF MissingIds(entity_col, time_col) THEN Raise(df, EmptyFrame, "ValueError:ID")
    ELSE
      LET d    == drop_singletons_func(df, entity_col)
          exog == exog_cols(x_vars, y_var)
          cov  == PanelCov(se_options, entity_col, time_col)
      IN  IF ClustersKeyError(se_options, entity_col, time_col, d)
          THEN Raise(df, d, "KeyError")
          ELSE IF ~lib.ok \/ d.rows = <<>>
          THEN Raise(df, d, "LibraryError")
          ELSE Outcome([estimator |-> name,
                        entity_effects |-> FALSE, time_effects |-> FALSE,
                        other_effects |-> {},
                        cov_type |-> cov.cov_type, cluster |-> cov.cluster,
                        params |-> <<"const">> \o exog, nobs |-> Len(d.rows)],
                       Stats(PanelStatKeys, Len(d.rows)),
                       df, d, "none")

_fit_random_effects(df, entity_col, time_col, lib) ==
    PanelWithConstant("RandomEffects", df, entity_col, time_col, lib)

_fit_pooled_ols(df, entity_col, time_col, lib) ==
    PanelWithConstant("PooledOLS", df, entity_col, time_col, lib)

StandardStatKeys(m) ==
    IF m = "ols" THEN {"N", "R2", "Adj-R2", "F", "AIC"}
    ELSE {"N", "Pseudo-R2", "AIC", "LL"}

\* The covariance estimator _fit_standard_regression asks statsmodels for
StandardCov(m, se) ==
    IF m = "ols" THEN
        IF se.type = "robust" THEN "HC1"
        ELSE IF se.type = "cluster" THEN "cluster"
        ELSE "nonrobust"
    ELSE "nonrobust"

\* smf.ols / smf.logit / smf.probit on "y ~ x1 + x2"; any other method name
\* falls through every branch and returns self.result as it is
_fit_standard_regression(df, lib) ==
    IF method \notin {"ols", "logit", "probit"}
    THEN Outcome(result, model_stats, df, df, "none")
    ELSE IF method = "ols" /\ se_options.type = "cluster"
            /\ se_options.cluster_var \notin df.columns
    THEN Raise(df, df, "KeyError")
    ELSE IF ~lib.ok \/ df.rows = <<>> \/ x_vars = <<>>
    THEN Raise(df, df, "LibraryError")
    ELSE Outcome([estimator |-> method,
                  entity_effects |-> FALSE, time_effects |-> FALSE,
                  other_effects |-> {},
                  cov_type |-> StandardCov(method, se_options),
                  cluster |-> IF StandardCov(method, se_options) = "cluster"
                              THEN {"groups"} ELSE {},
                  params |-> <<"Intercept">> \o x_vars, nobs |-> Len(df.rows)],
                 Stats(StandardStatKeys(method), Len(df.rows)),
                 df, df, "none")

AllRows == [i \in 1..Len(data) |-> i]

_fit_regression(lib) ==
    LET cols == RegressionCols(y_var, x_vars, fe_vars, se_options, panel_ids)
        df   == dropna(AllRows, cols)
        entity_col == panel_ids.entity
        time_col   == panel_ids.time
    IN  IF method = "fe" THEN _fit_fixed_effects(df, entity_col, time_col, lib)
        ELSE IF method = "re" THEN _fit_random_effects(df, entity_col, time_col, lib)
        ELSE IF method = "pooled" THEN _fit_pooled_ols(df, entity_col, time_col, lib)
        ELSE _fit_standard_regression(df, lib)

BasicMethods == {"desc", "corr", "vif", "freq", "grouped_desc"}

RegressionMethods == {"ols", "logit", "probit", "fe", "re", "pooled"}

\* The inputs of one fit that the libraries decide
LibInputs ==
    [ok : BOOLEAN,
     absorbed : IF method = "fe" THEN SUBSET Range(x_vars) ELSE {{}}]

_get_panel_coeffs_all(params) == params

\* _get_panel_coeffs: every parameter but 'const' / 'Intercept'
_get_panel_coeffs(params) ==
    SelectSeq(params, LAMBDA v : v \notin {"const", "Intercept"})

\* _get_standard_coeffs: the summary index, 'Intercept' renamed 'Constant'
_get_standard_coeffs(params) ==
    [k \in 1..Len(params) |-> IF params[k] = "Intercept" THEN "Constant" ELSE params[k]]

----------------------------------------------------------------------------
(* The merged table: core/table_generator.py *)

RECURSIVE Flatten(_)
Flatten(ss) ==
    IF ss = <<>> THEN <<>> ELSE Flatten(SubSeq(ss, 1, Len(ss) - 1)) \o ss[Len(ss)]

\* `if v not in seen: seen.append(v)` over s
RECURSIVE FirstSeen(_)
FirstSeen(s) ==
    IF s = <<>> THEN <<>>
    ELSE LET r == FirstSeen(SubSeq(s, 1, Len(s) - 1))
         IN  IF s[Len(s)] \in Range(r) THEN r ELSE Append(r, s[Len(s)])

CoeffKeys(m) == [k \in 1..Len(m.coeffs) |-> m.coeffs[k].var]

\* all_vars with the results visited last to first
all_vars_reversed(models_data) ==
    LET n    == Len(models_data)
        keys == Flatten([i \in 1..n |-> CoeffKeys(models_data[n + 1 - i])])
        rest == FirstSeen(SelectSeq(keys, LAMBDA v : v # "Constant"))
    IN  IF "Constant" \in Range(keys) THEN Append(rest, "Constant") ELSE rest

\* all_vars in place of first appearance, 'Constant' not moved
all_vars_constant_in_place(models_data) ==
    FirstSeen(Flatten([i \in 1..Len(models_data) |-> CoeffKeys(models_data[i])]))

\* 1. all variable names in first-seen order, 'Constant' last
all_vars(models_data) ==
    LET keys == Flatten([i \in 1..Len(models_data) |-> CoeffKeys(models_data[i])])
        rest == FirstSeen(SelectSeq(keys, LAMBDA v : v # "Constant"))
    IN  IF "Constant" \in Range(keys) THEN Append(rest, "Constant") ELSE rest

\* m['coeffs'].get(var, ("", ""))[0] and [1]
CoeffCell(m, var, part) ==
    IF \E k \in 1..Len(m.coeffs) : m.coeffs[k].var = var
    THEN LET k == CHOOSE j \in 1..Len(m.coeffs) : m.coeffs[j].var = var
         IN  IF part = 0 THEN m.coeffs[k].coef ELSE m.coeffs[k].se
    ELSE ""

\* str.upper() on the method names
Upper(m) ==
    CASE m = "ols" -> "OLS" [] m = "logit" -> "LOGIT" [] m = "probit" -> "PROBIT"
      [] m = "fe" -> "FE" [] m = "re" -> "RE" [] m = "pooled" -> "POOLED"
      [] OTHER -> m

\* 2. the column titles: (i), the dependent variable, the method
HeaderCells(models_data) ==
    [i \in 1..Len(models_data) |->
        "(" \o ToString(i) \o ")<br>" \o models_data[i].y_name \o "<br>("
            \o Upper(models_data[i].method) \o ")"]

TableRow(kind, label, cells, border) ==
    [kind |-> kind, label |-> label, cells |-> cells, border |-> border]

\* 3. one coefficient row and one SE/t row per variable
CoeffRows(models_data) ==
    LET av == all_vars(models_data)
        n  == Len(models_data)
    IN  [r \in 1..(2 * Len(av)) |->
            LET var == av[(r + 1) \div 2]
            IN  IF r % 2 = 1
                THEN TableRow("coef", var,
                              [i \in 1..n |-> CoeffCell(models_data[i], var, 0)], FALSE)
                ELSE TableRow("se", "",
                              [i \in 1..n |-> CoeffCell(models_data[i], var, 1)], FALSE)]

stats_map ==
    [nobs |-> <<"Observations", "N">>, r2 |-> <<"R-squared", "R2">>,
     adj_r2 |-> <<"Adj. R-squared", "Adj-R2">>, f_stat |-> <<"F-statistic", "F">>,
     pseudo_r2 |-> <<"Pseudo R2", "Pseudo-R2">>, aic |-> <<"AIC", "AIC">>,
     bic |-> <<"BIC", "BIC">>, ll |-> <<"Log Likelihood", "LL">>]

RECURSIVE Pow10(_)
Pow10(n) == IF n = 0 THEN 1 ELSE 10 * Pow10(n - 1)

RECURSIVE Digits(_, _)
Digits(n, width) ==
    IF width = 0 THEN "" ELSE Digits(n \div 10, width - 1) \o ToString(n % 10)

\* f"{val:.{decimals}f}" of the non-negative value v thousandths, decimals <= 3
FormatFixed(v, decimals) ==
    LET q == Pow10(3 - decimals)
        r == (v + q \div 2) \div q
        p == Pow10(decimals)
    IN  IF decimals = 0 THEN ToString(r)
        ELSE ToString(r \div p) \o "." \o Digits(r % p, decimals)

\* export_options.remove('nobs'); export_options.insert(0, 'nobs')
RemoveFirst(s, v) ==
    LET k == CHOOSE j \in 1..Len(s) : s[j] = v /\ \A i \in 1..(j - 1) : s[i] # v
    IN  SubSeq(s, 1, k - 1) \o SubSeq(s, k + 1, Len(s))

\* insert(0, 'nobs') without the remove
NobsInsertedOnly(opts) ==
    IF "nobs" \in Range(opts) THEN <<"nobs">> \o opts ELSE opts

\* the requested order left as it is
NobsKept(opts) == opts

NobsFirst(opts) ==
    IF "nobs" \in Range(opts) THEN <<"nobs">> \o RemoveFirst(opts, "nobs") ELSE opts

\* m['stats'].get(data_key, ""), formatted
StatCell(m, data_key, decimals) ==
    IF data_key \notin DOMAIN m.stats THEN ""
    ELSE IF data_key = "N" THEN ToString(m.stats[data_key])
    ELSE FormatFixed(m.stats[data_key], decimals)

\* 4. one row per exported statistic some result carries
StatRows(models_data, decimals, opts) ==
    LET n     == Len(models_data)
        shown == SelectSeq(opts, LAMBDA o :
                    /\ o \in DOMAIN stats_map
                    /\ \E i \in 1..n : stats_map[o][2] \in DOMAIN models_data[i].stats)
    IN  [r \in 1..Len(shown) |->
            TableRow("stat", stats_map[shown[r]][1],
                     [i \in 1..n |-> StatCell(models_data[i], stats_map[shown[r]][2],
                                              decimals)],
                     r = 1)]

CustomLabels(m) == [k \in 1..Len(m.custom_rows) |-> m.custom_rows[k].label]

\* a blank default instead of "No"
CustomCellBlank(m, label) ==
    IF \E k \in 1..Len(m.custom_rows) : m.custom_rows[k].label = label
    THEN LET k == CHOOSE j \in 1..Len(m.custom_rows) :
                     /\ m.custom_rows[j].label = label
                     /\ \A i \in 1..(j - 1) : m.custom_rows[i].label # label
         IN  m.custom_rows[k].value
    ELSE ""

CustomCell(m, label) ==
    IF \E k \in 1..Len(m.custom_rows) : m.custom_rows[k].label = label
    THEN LET k == CHOOSE j \in 1..Len(m.custom_rows) :
                     /\ m.custom_rows[j].label = label
                     /\ \A i \in 1..(j - 1) : m.custom_rows[i].label # label
         IN  m.custom_rows[k].value
    ELSE "No"

\* 5. one row per custom label, "No" where a result has none
CustomRows(models_data) ==
    LET n      == Len(models_data)
        labels == FirstSeen(Flatten([i \in 1..n |-> CustomLabels(models_data[i])]))
    IN  [r \in 1..Len(labels) |->
            TableRow("custom", labels[r],
                     [i \in 1..n |-> CustomCell(models_data[i], labels[r])], FALSE)]

\* the clustered note decided by the last result only
NoteLinesLastResult(models_data, show_se) ==
    <<IF show_se THEN "Standard errors in parentheses"
      ELSE "t-statistics in parentheses">>
    \o (IF models_data[Len(models_data)].se_type = "cluster"
        THEN <<"Standard errors are clustered.">> ELSE <<>>)
    \o <<"*** p<0.01, ** p<0.05, * p<0.1">>

\* 6. the footer
NoteLines(models_data, show_se) ==
    <<IF show_se THEN "Standard errors in parentheses"
      ELSE "t-statistics in parentheses">>
    \o (IF \E i \in 1..Len(models_data) : models_data[i].se_type = "cluster"
        THEN <<"Standard errors are clustered.">> ELSE <<>>)
    \o <<"*** p<0.01, ** p<0.05, * p<0.1">>

EmptyHtml == [title |-> "", header |-> <<>>, rows |-> <<>>, note |-> <<>>]

\* The table returned, and the caller's export_options list after the call
generate_merged_html(models_data, title, decimals, show_se, opts) ==
    IF models_data = <<>> THEN [html |-> EmptyHtml, export_options |-> opts]
    ELSE [html |-> [title  |-> title,
                    header |-> HeaderCells(models_data),
                    rows   |-> CoeffRows(models_data)
                               \o StatRows(models_data, decimals, NobsFirst(opts))
                               \o CustomRows(models_data),
                    note   |-> NoteLines(models_data, show_se)],
          export_options |-> NobsFirst(opts)]

----------------------------------------------------------------------------
(* The session layer: blueprints/analysis.py *)

NoRequest == [action |-> None, decimals |-> 3, show_se |-> TRUE, title |-> "",
              export_options |-> <<>>]

Response(kind, html, model_count) ==
    [kind |-> kind, html |-> html, model_count |-> model_count]

NoResponse == Response(None, EmptyHtml, 0)

NoSession ==
    /\ analysis_results = <<>>
    /\ request = NoRequest
    /\ export_options = <<>>
    /\ response = NoResponse

\* No test requested
NoTest ==
    /\ test_args = [decimals |-> 4, sigmamore |-> FALSE]
    /\ test_result = [kind |-> None]

\* The callers, the names they upload under, and what a file holds
Callers == {"a", "b"}
FileNames == {"data.csv", "panel.csv"}
File(d) == [exists |-> TRUE, data |-> d]
NoFile == [exists |-> FALSE, data |-> <<>>]
FileContents ==
    { <<Row({}, "e1"), Row({}, "e1"), Row({}, "e2")>>,
      <<Row({}, "e1"), Row({}, "e2")>> }

\* An empty upload folder and no session yet
NoCallers ==
    /\ uploads = [f \in FileNames |-> NoFile]
    /\ sessions = [c \in Callers |-> <<>>]
    /\ replies = [c \in Callers |-> NoResponse]
    /\ solo = [uploads |-> [f \in FileNames |-> NoFile], session |-> <<>>,
               reply |-> NoResponse]

\* The text of an estimate of v by method m (a number with its stars), and of
\* its standard error
CoefText(m, v) == "b[" \o v \o "," \o m \o "]"
SeText(m, v) == "(se[" \o v \o "," \o m \o "])"

\* The parameters a successful fit of method m on regressors x carries
ParamsOf(m, x) ==
    IF m = "fe" THEN (IF x = <<>> THEN <<"const">> ELSE x)
    ELSE IF m \in {"re", "pooled"} THEN <<"const">> \o x
    ELSE <<"Intercept">> \o x

StatKeysOf(m) == IF m \in {"fe", "re", "pooled"} THEN PanelStatKeys ELSE StandardStatKeys(m)

\* model_data of analyze(): get_coeffs_dataframe's dict and the request's fields
ModelData(m, x, nobs, se_type, custom_rows) ==
    LET keys == IF m \in {"fe", "re", "pooled"} THEN _get_panel_coeffs(ParamsOf(m, x))
                ELSE _get_standard_coeffs(ParamsOf(m, x))
    IN  [coeffs |-> [k \in 1..Len(keys) |->
                        [var |-> keys[k], coef |-> CoefText(m, keys[k]),
                         se |-> SeText(m, keys[k])]],
         stats |-> Stats(StatKeysOf(m), nobs),
         y_name |-> "y",
         method |-> m,
         se_type |-> se_type,
         custom_rows |-> custom_rows]


\* StataModel.__init__'s defaults for the basic analyses and fit()'s decimals
NoBasic ==
    basic_args = [decimals |-> 3, desc_options |-> <<"mean", "std", "min", "max">>,
                  merge_freq_tables |-> FALSE, group_var |-> None]

\* The addresses codes are sent to, the request threads of the server, and
\* EmailService.__init__: no code stored, nothing verified yet
Emails == {"a@x.org", "b@x.org"}
Threads == {"t1", "t2"}
NoCodes ==
    /\ _verification_codes =
           [e \in Emails |-> [stored |-> FALSE, code |-> None, expire_time |-> 0, serial |-> 0]]
    /\ now = 0
    /\ threads = [t \in Threads |-> [pc |-> "idle", route |-> None, email |-> None]]
    /\ passes = <<>>

\* The ids of the user table, and a table of two administrators and two
\* users
UserIds == 1..4
NoAdmin ==
    /\ users = [u \in UserIds |->
                  [exists |-> TRUE, role |-> IF u <= 2 THEN "admin" ELSE "user",
                   is_active |-> TRUE]]
    /\ admin_reply = [route |-> None, status |-> 0, by |-> 0, user_id |-> 0]
----------------------------------------------------------------------------
(* Actions on one StataModel *)

\* StataModel.fit for the regression methods (the branch of line 152)
Fit ==
    /\ pc = "constructed"
    /\ method \notin BasicMethods
    /\ \E lib \in LibInputs :
         LET out == _fit_regression(lib)
         IN  /\ result' = out.result
             /\ model_stats' = out.model_stats
             /\ df_clean' = out.df_clean
             /\ sample' = out.sample
             /\ raised' = out.raised
    /\ pc' = "fitted"
    /\ UNCHANGED <<data, y_var, x_vars, method, panel_ids, fe_vars, se_options,
                   custom_html, coeffs>>
    /\ UNCHANGED sessionvars
    /\ UNCHANGED othervars

\* StataModel.get_coeffs_dataframe, called once fit() has returned
GetCoeffs ==
    /\ pc = "fitted"
    /\ raised = "none"
    /\ IF custom_html # None THEN coeffs' = <<>> /\ raised' = raised
       ELSE IF result = NoResult THEN coeffs' = <<>> /\ raised' = "AttributeError"
       ELSE IF method \in {"fe", "re", "pooled"}
            THEN coeffs' = _get_panel_coeffs(result.params) /\ raised' = raised
            ELSE coeffs' = _get_standard_coeffs(result.params) /\ raised' = raised
    /\ pc' = "extracted"
    /\ UNCHANGED <<data, y_var, x_vars, method, panel_ids, fe_vars, se_options,
                   result, model_stats, custom_html, df_clean, sample>>
    /\ UNCHANGED sessionvars
    /\ UNCHANGED othervars

\* StataModel.__init__ on a request
Constructed(d, m, x, ids, fe, se) ==
    /\ data = d
    /\ y_var = "y"
    /\ x_vars = x
    /\ method = m
    /\ panel_ids = ids
    /\ fe_vars = fe
    /\ se_options = se
    /\ result = NoResult
    /\ model_stats = NoStats
    /\ custom_html = None
    /\ df_clean = EmptyFrame
    /\ sample = EmptyFrame
    /\ raised = "none"
    /\ coeffs = <<>>
    /\ pc = "constructed"
    /\ NoSession
    /\ NoTest
    /\ NoCallers
    /\ NoBasic /\ NoCodes /\ NoAdmin

Ids(e, t) == [entity |-> e, time |-> t]
Se(t, c) == [type |-> t, cluster_var |-> c]

\* Requests of the data-preparation specification: every dataset, and the
\* column choices that decide which rows are dropped
PrepMethods == {"ols", "probit", "fe", "re"}
PrepIds == {Ids("id", "year"), Ids(None, None)}
PrepFe == {<<"id">>, <<"g">>}
PrepSe == {Se("iid", None), Se("iid", "g"), Se("cluster", "g")}

Init ==
    \E d \in Datasets, m \in PrepMethods, ids \in PrepIds, fe \in PrepFe, se \in PrepSe :
        Constructed(d, m, <<"x1">>, ids, fe, se)

Next == Fit \/ GetCoeffs

Spec == Init /\ [][Next]_vars

\* Requests of the estimator specification: two panels, every method and option
Complete(e) == Row({}, e)
FitDatasets ==
    { <<Complete("e1"), Complete("e1"), Complete("e2")>>,
      <<Complete("e1"), Complete("e2"), Complete("e2"), Row({"g"}, "e1")>> }
FitMethods == RegressionMethods \cup {"tobit"}
FitX == {<<>>, <<"x1">>, <<"x1", "g">>}
FitIds == {Ids(e, t) : e \in {"id", None, ""}, t \in {"year", None}}
FitFe == {<<>>, <<"id">>, <<"id", "year">>, <<"g">>, <<"year">>}
FitSe == {Se("iid", None), Se("robust", None), Se("cluster", None),
          Se("cluster", "id"), Se("cluster", "year"), Se("cluster", "g")}

InitFit ==
    \E d \in FitDatasets, m \in FitMethods, x \in FitX, ids \in FitIds,
       fe \in FitFe, se \in FitSe :
        Constructed(d, m, x, ids, fe, se)

SpecFit == InitFit /\ [][Next]_vars

\* Requests of the fixed-effects specification: every dataset, FE only
FeX == {<<>>, <<"x1">>, <<"x1", "g">>}
FeFe == {<<"id">>, <<"id", "year">>}
FeSe == {Se("iid", None), Se("cluster", "g")}

InitFE ==
    \E d \in Datasets, x \in FeX, fe \in FeFe, se \in FeSe :
        Constructed(d, "fe", x, Ids("id", "year"), fe, se)

SpecFE == InitFE /\ [][Next]_vars

----------------------------------------------------------------------------
(* Actions of the session layer *)

MaxModels == 2

\* The fits a session is fed with: each method family, regressor lists that
\* overlap in different orders, each covariance policy, with and without a
\* custom row
TableFits ==
    { ModelData("ols", <<"x1">>, 3, "iid", <<>>),
      ModelData("ols", <<"g", "x1">>, 3, "cluster", <<>>),
      ModelData("fe", <<"x1">>, 2, "cluster", <<[label |-> "Entity FE", value |-> "Yes"]>>),
      ModelData("fe", <<"g", "x1">>, 2, "iid", <<[label |-> "Entity FE", value |-> "Yes"]>>),
      ModelData("re", <<"x1">>, 3, "iid", <<>>),
      ModelData("logit", <<"x1", "g">>, 3, "robust",
                <<[label |-> "Controls", value |-> "Yes"]>>) }

Options(dec, se, exp) == [decimals |-> dec, show_se |-> se, export_options |-> exp]

\* decimals, show_se and export_options of a request
TableOptions ==
    { Options(3, TRUE, <<"r2", "bic", "nobs">>),
      Options(2, FALSE, <<"aic", "r2">>),
      Options(3, FALSE, <<"aic", "r2">>) }

NoModelData == ModelData(None, <<>>, 0, None, <<>>)

\* What StataModel.fit and get_coeffs_dataframe hand back to analyze(): an
\* exception (or no result), a diagnostic table, or the data of a fit
FitOutcomes ==
    {[kind |-> "error", md |-> NoModelData], [kind |-> "custom", md |-> NoModelData]}
    \cup {[kind |-> "fit", md |-> md] : md \in TableFits}

\* raw_output: result_obj.summary() is called for every method but 'fe'; the
\* linearmodels results of 're' and 'pooled' have summary as a property, so
\* the call raises and the handler answers with the error
SummaryRaises(m) == m \in {"re", "pooled"}

\* 'append' putting the new fit in front of the list
UpdatedResultsPrepend(act, results, model_data) ==
    IF act = "new" THEN <<model_data>>
    ELSE IF act = "append" THEN <<model_data>> \o results
    ELSE results

\* 4.3 session['analysis_results'] after the update for `action`
UpdatedResults(act, results, model_data) ==
    IF act = "new" THEN <<model_data>>
    ELSE IF act = "append" THEN Append(results, model_data)
    ELSE results

\* upload_file: a saved and readable file empties the caller's list
Upload ==
    /\ \E ok \in BOOLEAN :
         IF ok
         THEN /\ analysis_results' = <<>>
              /\ response' = Response("uploaded", EmptyHtml, 0)
         ELSE /\ analysis_results' = analysis_results
              /\ response' = Response("error", EmptyHtml, 0)
    /\ UNCHANGED <<request, export_options>>
    /\ UNCHANGED modelvars
    /\ UNCHANGED othervars

\* analyze
Analyze ==
    /\ \E act \in {"new", "append"}, opt \in TableOptions, out \in FitOutcomes :
       LET dec == opt.decimals
           se  == opt.show_se
           exp == opt.export_options
       IN
         /\ act = "append" => Len(analysis_results) < MaxModels
         /\ request' = [action |-> act, decimals |-> dec, show_se |-> se,
                        title |-> "Regression Results", export_options |-> exp]
         /\ IF out.kind = "custom"
            THEN /\ response' = Response("custom", EmptyHtml, 0)
                 /\ UNCHANGED analysis_results
                 /\ export_options' = exp
            ELSE IF out.kind = "error"
            THEN /\ response' = Response("error", EmptyHtml, 0)
                 /\ UNCHANGED analysis_results
                 /\ export_options' = exp
            ELSE LET current_models == UpdatedResults(act, analysis_results, out.md)
                     gen == generate_merged_html(current_models, "Regression Results",
                                                 dec, se, exp)
                 IN  /\ analysis_results' = current_models
                     /\ export_options' = gen.export_options
                     /\ response' =
                          IF SummaryRaises(out.md.method)
                          THEN Response("error", EmptyHtml, 0)
                          ELSE Response("table", gen.html, Len(current_models))
    /\ UNCHANGED modelvars
    /\ UNCHANGED othervars

\* clear_table
ClearTable ==
    /\ analysis_results' = <<>>
    /\ response' = Response("cleared", EmptyHtml, 0)
    /\ UNCHANGED <<request, export_options>>
    /\ UNCHANGED modelvars
    /\ UNCHANGED othervars

InitTable ==
    /\ data = <<>>
    /\ y_var = "y"
    /\ x_vars = <<>>
    /\ method = "ols"
    /\ panel_ids = Ids(None, None)
    /\ fe_vars = <<>>
    /\ se_options = Se("iid", None)
    /\ result = NoResult
    /\ model_stats = NoStats
    /\ custom_html = None
    /\ df_clean = EmptyFrame
    /\ sample = EmptyFrame
    /\ raised = "none"
    /\ coeffs = <<>>
    /\ pc = "constructed"
    /\ NoSession
    /\ NoTest
    /\ NoCallers
    /\ NoBasic /\ NoCodes /\ NoAdmin

NextTable == Upload \/ Analyze \/ ClearTable

SpecTable == InitTable /\ [][NextTable]_vars

----------------------------------------------------------------------------
(* Two callers on one server: each has its own session, both use the one
   upload folder *)

\* analyze for an OLS of y on x1 over the file named f: the caller's list and
\* the reply afterwards
AnalyzeOn(folder, results, f, act) ==
    IF ~folder[f].exists
    THEN [session |-> results, reply |-> Response("error", EmptyHtml, 0)]
    ELSE LET md  == ModelData("ols", <<"x1">>, Len(folder[f].data), "iid", <<>>)
             cur == UpdatedResults(act, results, md)
             gen == generate_merged_html(cur, "Regression Results", 3, TRUE,
                                         <<"nobs", "r2">>)
         IN  [session |-> cur, reply |-> Response("table", gen.html, Len(cur))]

\* upload_file by caller c: save_file writes upload_folder/<filename>
CallerUpload(c) ==
    /\ \E f \in FileNames, d \in FileContents :
         /\ uploads' = [uploads EXCEPT ![f] = File(d)]
         /\ solo' = IF c = "a"
                    THEN [uploads |-> [solo.uploads EXCEPT ![f] = File(d)],
                          session |-> <<>>,
                          reply |-> Response("uploaded", EmptyHtml, 0)]
                    ELSE solo
    /\ sessions' = [sessions EXCEPT ![c] = <<>>]
    /\ replies' = [replies EXCEPT ![c] = Response("uploaded", EmptyHtml, 0)]
    /\ UNCHANGED <<modelvars, sessionvars, testvars, servicevars>>

\* analyze by caller c: read_datafile_by_name reads upload_folder/<filename>
CallerAnalyze(c) ==
    /\ \E f \in FileNames, act \in {"new", "append"} :
         LET out == AnalyzeOn(uploads, sessions[c], f, act)
             ref == AnalyzeOn(solo.uploads, solo.session, f, act)
         IN  /\ act = "append" => Len(sessions[c]) < MaxModels
             /\ (act = "append" /\ c = "a") => Len(solo.session) < MaxModels
             /\ sessions' = [sessions EXCEPT ![c] = out.session]
             /\ replies' = [replies EXCEPT ![c] = out.reply]
             /\ solo' = IF c = "a"
                        THEN [solo EXCEPT !.session = ref.session, !.reply = ref.reply]
                        ELSE solo
    /\ UNCHANGED uploads
    /\ UNCHANGED <<modelvars, sessionvars, testvars, servicevars>>

\* clear_table by caller c
CallerClear(c) ==
    /\ sessions' = [sessions EXCEPT ![c] = <<>>]
    /\ replies' = [replies EXCEPT ![c] = Response("cleared", EmptyHtml, 0)]
    /\ solo' = IF c = "a"
               THEN [solo EXCEPT !.session = <<>>,
                                 !.reply = Response("cleared", EmptyHtml, 0)]
               ELSE solo
    /\ UNCHANGED uploads
    /\ UNCHANGED <<modelvars, sessionvars, testvars, servicevars>>

NextCallers == \E c \in Callers : CallerUpload(c) \/ CallerAnalyze(c) \/ CallerClear(c)

SpecCallers == InitTable /\ [][NextCallers]_vars

----------------------------------------------------------------------------
(* Specification tests: ModelTests in core/models.py.  Floating-point values
   are integers in millionths; the numbers statsmodels, linearmodels and scipy
   return are inputs of the call. *)

\* A float, NaN, and the string 'N/A'
Num(v) == [kind |-> "num", v |-> v]
NaN == [kind |-> "nan", v |-> 0]
NotAvailable == [kind |-> "N/A", v |-> 0]

\* round(value, decimals) of a non-negative float, decimals <= 6
Round(x, decimals) ==
    IF x.kind # "num" THEN x
    ELSE LET q == Pow10(6 - decimals)
         IN  Num(((x.v + q \div 2) \div q) * q)

\* if p_value < 0.01 ... elif p_value < 0.05 ... elif p_value < 0.1 ... else;
\* every comparison with NaN is False
Classify(p) ==
    IF p.kind = "num" /\ p.v < 10000 THEN [significance |-> "***", conclusion |-> "strong"]
    ELSE IF p.kind = "num" /\ p.v < 50000 THEN [significance |-> "**", conclusion |-> "reject"]
    ELSE IF p.kind = "num" /\ p.v < 100000 THEN [significance |-> "*", conclusion |-> "weak"]
    ELSE [significance |-> "", conclusion |-> "accept"]

\* The p-values scipy may return: values at, just below and away from the
\* three thresholds
PValues == {0, 9960, 10000, 49960, 50000, 99960, 100000, 500000, 1000000}

\* Residual sums of squares of the two fits
LibRss(fit) == IF fit = "pooled" THEN 9000000 ELSE 4000000

\* cols and the two preparation steps shared by both tests
TestSample ==
    drop_singletons_func(
        dropna(AllRows, {y_var} \cup Range(x_vars) \cup {panel_ids.entity, panel_ids.time}),
        panel_ids.entity)

\* df_clean[entity_col].nunique()
nunique(df, col) == Cardinality({data[df.rows[k]][col] : k \in 1..Len(df.rows)})

TestRaised(exc) == [kind |-> "raised", exception |-> exc]

\* lib: [ok, absorbed, p, zerodiv]: whether the two fits return, the regressors
\* PanelOLS(drop_absorbed=True) drops, the p-value of the F distribution, and
\* whether a float division by zero raises (a Python float) or gives inf/NaN
\* (a numpy float)
f_test_fe_vs_pooled(lib) ==
    LET d    == TestSample
        kept == SelectSeq(x_vars, LAMBDA v : v \notin lib.absorbed)
        n_entities == nunique(d, panel_ids.entity)
        n_obs == Len(d.rows)
        df1  == n_entities - 1
        k_vars == Len(x_vars)
        df2  == n_obs - n_entities - k_vars
        p    == IF df1 <= 0 \/ df2 <= 0 THEN NaN ELSE Num(lib.p)
        c    == Classify(p)
    IN  IF ~lib.ok \/ d.rows = <<>> \/ kept = <<>> THEN TestRaised("LibraryError")
        ELSE IF df2 = 0 /\ lib.zerodiv THEN TestRaised("ZeroDivisionError")
        ELSE [kind |-> "f_test",
              f_num |-> (LibRss("pooled") - LibRss("fe")) * df2,
              f_den |-> df1 * LibRss("fe"),
              df1 |-> df1, df2 |-> df2,
              p_value |-> Round(p, test_args.decimals),
              significance |-> c.significance,
              conclusion |-> c.conclusion,
              rss_pooled |-> Round(Num(LibRss("pooled")), test_args.decimals),
              rss_fe |-> Round(Num(LibRss("fe")), test_args.decimals),
              n_entities |-> n_entities, n_obs |-> n_obs,
              sample |-> d, fe_exog |-> kept]

\* The Hausman statistic the two fits may give
HValues == {0 - 2500000, 0, 3200000}

Abs(v) == IF v < 0 THEN 0 - v ELSE v

\* a statistic of zero taken for the non-positive-definite case
NotPositiveDefiniteOrZero(h_stat) == h_stat <= 0

\* if h_stat < 0
NotPositiveDefinite(h_stat) == h_stat < 0

\* np.sqrt of a perfect square
ISqrt(n) == CHOOSE k \in 0..n : k * k = n

\* the ratio left unsquared
scaling_factor_unsquared(s2_re, s2_fe) == [num |-> s2_re, den |-> s2_fe]

\* scaling_factor = (s2_re / s2_fe) ** 2, as a fraction
scaling_factor(s2_re, s2_fe) == [num |-> s2_re * s2_re, den |-> s2_fe * s2_fe]

\* lib: [ok, absorbed, h, pinv, p, negative, sigma2]: whether the fits return,
\* the regressors PanelOLS drops, the statistic, whether the pseudo-inverse is
\* computed, the chi-square p-value, the coefficients whose variance
\* difference is not positive, and resid_ss / df_resid of the FE fit and of
\* the pooled fit
hausman_test(lib) ==
    LET d    == TestSample
        kept == SelectSeq(x_vars, LAMBDA v : v \notin lib.absorbed)
        common_vars == <<"const">> \o kept
        std_err_diff == [k \in 1..Len(common_vars) |->
                            [var |-> common_vars[k],
                             value |-> IF common_vars[k] \in lib.negative
                                       THEN "negative" ELSE "sqrt"]]
        p    == IF lib.h = 0 THEN Num(1000000) ELSE Num(lib.p)
        c    == Classify(p)
        s2_fe == ISqrt(lib.sigma2[1])
        s2_re == ISqrt(lib.sigma2[2])
        used == IF test_args.sigmamore
                THEN [scaling |-> scaling_factor(s2_re, s2_fe),
                      cov_fe |-> "fe", cov_re |-> "pooled",
                      sigma2_fe |-> lib.sigma2[1], sigma2_re |-> lib.sigma2[2]]
                ELSE [scaling |-> [num |-> 1, den |-> 1],
                      cov_fe |-> "fe", cov_re |-> "re",
                      sigma2_fe |-> 0, sigma2_re |-> 0]
    IN  IF ~lib.ok \/ d.rows = <<>> THEN TestRaised("LibraryError")
        ELSE IF ~lib.pinv
        THEN [kind |-> "error", fe_coeffs |-> common_vars, re_coeffs |-> common_vars,
              h_stat |-> NaN, cov |-> IF test_args.sigmamore THEN "sigmamore" ELSE "raw"]
        ELSE IF NotPositiveDefinite(lib.h)
        THEN [kind |-> "not_pd",
              chi2_statistic |-> Round(Num(Abs(lib.h)), test_args.decimals),
              df |-> Len(common_vars),
              p_value |-> NotAvailable,
              significance |-> "",
              conclusion |-> "not positive definite",
              fe_coeffs |-> common_vars, re_coeffs |-> common_vars,
              std_err_diff |-> std_err_diff,
              h_stat |-> Num(lib.h),
              cov |-> IF test_args.sigmamore THEN "sigmamore" ELSE "raw"] @@ used
        ELSE [kind |-> "hausman",
              chi2_statistic |-> Round(Num(lib.h), test_args.decimals),
              df |-> Len(common_vars),
              p_value |-> Round(p, test_args.decimals),
              significance |-> c.significance,
              conclusion |-> c.conclusion,
              fe_coeffs |-> common_vars, re_coeffs |-> common_vars,
              std_err_diff |-> std_err_diff,
              h_stat |-> Num(lib.h),
              cov |-> IF test_args.sigmamore THEN "sigmamore" ELSE "raw"] @@ used

\* POST /f_test
FTest ==
    /\ pc = "constructed"
    /\ \E lib \in [ok : BOOLEAN, absorbed : SUBSET Range(x_vars), p : PValues,
                   zerodiv : BOOLEAN] :
         test_result' = f_test_fe_vs_pooled(lib)
    /\ pc' = "tested"
    /\ UNCHANGED <<data, y_var, x_vars, method, panel_ids, fe_vars, se_options, result,
                   model_stats, custom_html, df_clean, sample, raised, coeffs>>
    /\ UNCHANGED <<sessionvars, test_args, callervars, servicevars>>

\* POST /hausman_test
Hausman ==
    /\ pc = "constructed"
    /\ \E lib \in [ok : BOOLEAN, absorbed : SUBSET Range(x_vars), h : HValues,
                   pinv : BOOLEAN, p : PValues \ {1000000},
                   negative : SUBSET {"const", "x1"},
                   sigma2 : {<<4, 9>>, <<1, 4>>, <<4, 4>>}] :
         test_result' = hausman_test(lib)
    /\ pc' = "tested"
    /\ UNCHANGED <<data, y_var, x_vars, method, panel_ids, fe_vars, se_options, result,
                   model_stats, custom_html, df_clean, sample, raised, coeffs>>
    /\ UNCHANGED <<sessionvars, test_args, callervars, servicevars>>

\* Panels of one and of two entities that stay after the singleton removal,
\* with and without a row that has a missing regressor
TestDatasets ==
    { <<Row({}, "e1"), Row({}, "e1"), Row({}, "e2"), Row({}, "e2")>>,
      <<Row({}, "e1"), Row({}, "e2"), Row({}, "e1"), Row({}, "e2"), Row({}, "e2")>>,
      <<Row({}, "e1"), Row({"x1"}, "e1"), Row({}, "e2"), Row({}, "e1"), Row({}, "e2")>>,
      <<Row({}, "e1"), Row({}, "e1"), Row({}, "e2")>> }

\* The routes refuse a request without regressors or panel identifiers
InitTests ==
    /\ data \in TestDatasets
    /\ y_var = "y"
    /\ x_vars \in {<<"x1">>, <<"x1", "g">>}
    /\ method = "fe"
    /\ panel_ids = [entity |-> "id", time |-> "year"]
    /\ fe_vars = <<>>
    /\ se_options = [type |-> "iid", cluster_var |-> None]
    /\ result = NoResult
    /\ model_stats = NoStats
    /\ custom_html = None
    /\ df_clean = EmptyFrame
    /\ sample = EmptyFrame
    /\ raised = "none"
    /\ coeffs = <<>>
    /\ pc = "constructed"
    /\ NoSession
    /\ test_args \in [decimals : {2, 4}, sigmamore : BOOLEAN]
    /\ test_result = [kind |-> None]
    /\ NoCallers
    /\ NoBasic /\ NoCodes /\ NoAdmin

NextTests == FTest \/ Hausman

SpecTests == InitTests /\ [][NextTests]_vars

----------------------------------------------------------------------------
(* The basic analyses (StataModel._fit_basic_analysis): correlation, VIF,
   frequency tables and grouped descriptive statistics.  A numeric cell
   holds "1", "2" or "3", a categorical one "A", "B" or "C".  The table a
   fit stores in custom_html is kept as its rows of cell texts.  The
   correlations and p-values of varying columns and the variance inflation
   factors are inputs of the fit; a VIF is a float of at least 1, infinite,
   or the call raises.  Numbers are thousandths. *)

BasicColumns == {"u", "w", "g", "h"}
NumericColumns == {"u", "w"}

\* sort_index() and groupby() order: Python's order of the cell values
ValueOrder == <<"1", "2", "3", "A", "B", "C">>

\* The float a numeric cell holds
Val(c) == CASE c = "1" -> 1 [] c = "2" -> 2 [] c = "3" -> 3

RECURSIVE Sum(_)
Sum(s) == IF s = <<>> THEN 0 ELSE Head(s) + Sum(Tail(s))

\* f"{num/den:.{decimals}f}" of a non-negative quotient
FormatRatio(num, den, decimals) ==
    LET p == Pow10(decimals)
        r == (2 * num * p + den) \div (2 * den)
    IN  IF decimals = 0 THEN ToString(r)
        ELSE ToString(r \div p) \o "." \o Digits(r % p, decimals)

\* What a fit that raised leaves
ValueError == [kind |-> "ValueError"]

\* self.data[var].dropna(): the non-missing cells of a column, in row order
Cells(var) == SelectSeq([i \in 1..Len(data) |-> data[i][var]], LAMBDA c : c # NA)

\* value_counts().sort_index(): the distinct values in ascending order
values_as_met(s) == FirstSeen(s)

sorted_values(s) == SelectSeq(ValueOrder, LAMBDA v : v \in Range(s))

\* The rows of one column's frequency table: a row per distinct value, then
\* the closing row.  cumulative_pct adds up the percents, count / total * 100
\* each.
FreqRows(var, decimals, closing) ==
    LET s == Cells(var)
        total == Len(s)
        values == sorted_values(s)
        count(k) == Cardinality({i \in 1..total : s[i] = values[k]})
        cumulative(k) == Cardinality({i \in 1..total : \E j \in 1..k : s[i] = values[j]})
        hundred == FormatRatio(100, 1, decimals)
    IN  [k \in 1..Len(values) |->
            [Value |-> values[k], Freq |-> count(k),
             Percent |-> FormatRatio(100 * count(k), total, decimals),
             Cum |-> FormatRatio(100 * cumulative(k), total, decimals)]]
        \o <<[Value |-> closing, Freq |-> total, Percent |-> hundred, Cum |-> hundred]>>

\* The columns the loops of _fit_frequency_multiple and _fit_frequency_merged
\* do not skip: those with a value
every_col(cols) == cols

filled_cols(cols) == SelectSeq(cols, LAMBDA c : Cells(c) # <<>>)

\* _fit_frequency: one table, a table per column, or the merged table
_fit_frequency(decimals) ==
    LET valid_cols == SelectSeq(x_vars, LAMBDA c : c \in BasicColumns)
        filled == filled_cols(valid_cols)
        table(var) == [var |-> var, rows |-> FreqRows(var, decimals, "Total")]
        merged(var) == LET rows == FreqRows(var, decimals, "Subtotal")
                       IN  [k \in 1..Len(rows) |-> [Variable |-> var] @@ rows[k]]
    IN  IF valid_cols = <<>> THEN ValueError
        ELSE IF Len(valid_cols) = 1
        THEN IF Cells(valid_cols[1]) = <<>> THEN ValueError
             ELSE [kind |-> "freq", tables |-> <<table(valid_cols[1])>>]
        ELSE IF filled = <<>> THEN ValueError
        ELSE IF basic_args.merge_freq_tables
             THEN [kind |-> "freq_merged",
                   rows |-> Flatten([k \in 1..Len(filled) |-> merged(filled[k])])]
             ELSE [kind |-> "freq",
                   tables |-> [k \in 1..Len(filled) |-> table(filled[k])]]

\* _fit_correlation: the matrix of formatted cells.  df.corr() is NaN wherever
\* a column has no variation, the diagonal included; pearsonr raises on fewer
\* than two observations and returns NaN for a column without variation.
_fit_correlation(df, decimals, lib) ==
    LET cols == df.columns
        n == Len(cols)
        Varies(c) == \E i, j \in Range(df.rows) : data[i][c] # data[j][c]
        both(i, j) == Varies(cols[i]) /\ Varies(cols[j])
        val(i, j) == IF ~both(i, j) THEN NaN
                     ELSE IF i = j THEN Num(1000) ELSE Num(lib.r)
        p_val(i, j) == IF i = j THEN Num(1000)
                       ELSE IF both(i, j) THEN Num(lib.p) ELSE NaN
        stars(i, j) == IF i = j \/ p_val(i, j).kind = "nan" THEN ""
                       ELSE IF p_val(i, j).v < 10 THEN "***"
                       ELSE IF p_val(i, j).v < 50 THEN "**"
                       ELSE IF p_val(i, j).v < 100 THEN "*"
                       ELSE ""
        text(i, j) == (IF val(i, j).kind = "nan" THEN "nan"
                       ELSE FormatFixed(val(i, j).v, decimals)) \o stars(i, j)
    IN  IF n > 1 /\ Len(df.rows) < 2 THEN ValueError
        ELSE [kind |-> "corr", cols |-> cols,
              cells |-> [i \in 1..n |-> [j \in 1..n |-> text(i, j)]]]

\* The Mean VIF row, when a finite VIF was collected
mean_vif_row_always(vif_values, decimals) ==
    <<[Variable |-> "Mean VIF",
       VIF |-> IF vif_values = <<>> THEN "nan"
               ELSE FormatRatio(Sum(vif_values), 1000 * Len(vif_values), decimals),
       Tol |-> "."]>>

mean_vif_row(vif_values, decimals) ==
    IF vif_values = <<>> THEN <<>>
    ELSE <<[Variable |-> "Mean VIF",
            VIF |-> FormatRatio(Sum(vif_values), 1000 * Len(vif_values), decimals),
            Tol |-> "."]>>

\* _fit_vif: a row per column of the frame (the added 'const' has none), with
\* the columns 'Variable', 'VIF' and '1/VIF' (Tol)
_fit_vif(df, decimals, lib) ==
    LET cols == df.columns
        val(k) == lib.vif[cols[k]]
        row(k) ==
            [Variable |-> cols[k],
             VIF |-> IF val(k).kind = "raised" THEN "Error"
                     ELSE IF val(k).kind = "inf" THEN "Inf"
                     ELSE FormatFixed(val(k).v, decimals),
             Tol |-> IF val(k).kind = "raised" THEN "-"
                     ELSE IF val(k).kind = "inf" THEN "0.000"
                     ELSE FormatRatio(1000, val(k).v, decimals)]
        finite == SelectSeq([k \in 1..Len(cols) |-> val(k)], LAMBDA x : x.kind = "num")
        vif_values == [k \in 1..Len(finite) |-> finite[k].v]
    IN  [kind |-> "vif",
         rows |-> [k \in 1..Len(cols) |-> row(k)] \o mean_vif_row(vif_values, decimals)]

\* One cell of a group's table: row_dict[col] of lines 293-326 as lines
\* 390-397 show it; vals are the non-missing values of the variable in the
\* group.  The standard deviation of a single value is NaN, shown as "-".
StatText(col, vals, decimals) ==
    LET n == Len(vals)
        \* var_data.std(), n > 1: the root of p / q, rounded at `decimals` places
        p == n * Sum([k \in 1..n |-> vals[k] * vals[k]]) - Sum(vals) * Sum(vals)
        q == n * (n - 1)
        s == Pow10(decimals)
        std == CHOOSE k \in 0..(3 * s) :
                   /\ k = 0 \/ (2 * k - 1) * (2 * k - 1) * q <= 4 * p * s * s
                   /\ 4 * p * s * s < (2 * k + 1) * (2 * k + 1) * q
        below(v) == Cardinality({k \in 1..n : vals[k] < v})
        upto(v) == Cardinality({k \in 1..n : vals[k] <= v})
        kth(j) == CHOOSE v \in Range(vals) : below(v) < j /\ j <= upto(v)
    IN  IF col = "N" THEN ToString(n)
        ELSE IF n = 0 THEN "-"
        ELSE IF col = "Mean" THEN FormatRatio(Sum(vals), n, decimals)
        ELSE IF col = "Std.Dev" THEN IF n < 2 THEN "-" ELSE FormatRatio(std, s, decimals)
        ELSE IF col = "Min" THEN FormatRatio(kth(1), 1, decimals)
        ELSE IF col = "Max" THEN FormatRatio(kth(n), 1, decimals)
        ELSE IF n % 2 = 1 THEN FormatRatio(kth((n + 1) \div 2), 1, decimals)
        ELSE FormatRatio(kth(n \div 2) + kth(n \div 2 + 1), 2, decimals)

\* The non-missing values of variable var in the rows of group g of gv
ValuesOfAllGroups(gv, g, var) ==
    LET rows == SelectSeq([i \in 1..Len(data) |-> i],
                          LAMBDA i : data[i][gv] # NA /\ data[i][var] # NA)
    IN  [k \in 1..Len(rows) |-> Val(data[rows[k]][var])]

GroupValues(gv, g, var) ==
    LET rows == SelectSeq([i \in 1..Len(data) |-> i],
                          LAMBDA i : data[i][gv] = g /\ data[i][var] # NA)
    IN  [k \in 1..Len(rows) |-> Val(data[rows[k]][var])]

\* _fit_grouped_descriptive: a table per value of the group variable, in
\* groupby order, with a row per numeric variable
_fit_grouped_descriptive(decimals) ==
    LET gv == basic_args.group_var
        numeric_cols == SelectSeq(x_vars, LAMBDA c : c \in NumericColumns)
        groups == SelectSeq(ValueOrder, LAMBDA v : v \in Range(Cells(gv)))
        \* the statistic columns, in row_dict's key order
        opts == Range(basic_args.desc_options)
        asked == [N |-> {"nobs", "count"}, Mean |-> {"mean"}, Std |-> {"std"},
                  Min |-> {"min"}, Max |-> {"max"}, Median |-> {"p50"}]
        StatCols == SelectSeq(<<"N", "Mean", "Std.Dev", "Min", "Max", "Median">>,
                      LAMBDA c : asked[IF c = "Std.Dev" THEN "Std" ELSE c] \cap opts # {})
        row(g, var) ==
            [Variable |-> var,
             cells |-> [c \in Range(StatCols) |->
                           StatText(c, GroupValues(gv, g, var), decimals)]]
        table(g) ==
            [group_name |-> g, columns |-> StatCols,
             rows |-> [k \in 1..Len(numeric_cols) |-> row(g, numeric_cols[k])]]
    IN  IF ~Truthy(gv) \/ gv \notin BasicColumns THEN ValueError
        ELSE IF numeric_cols = <<>> \/ groups = <<>> THEN ValueError
        ELSE [kind |-> "grouped_desc", tables |-> [k \in 1..Len(groups) |-> table(groups[k])]]

\* _fit_basic_analysis for 'corr', 'vif', 'freq' and 'grouped_desc'
_fit_basic_analysis(lib) ==
    LET decimals == basic_args.decimals
        \* data[valid_cols].select_dtypes(include=[np.number]).dropna()
        cols == SelectSeq(x_vars, LAMBDA c : c \in NumericColumns)
        df_clean_ == [rows |-> SelectSeq([i \in 1..Len(data) |-> i],
                                         LAMBDA i : \A c \in Range(cols) : data[i][c] # NA),
                      columns |-> cols]
    IN  IF x_vars = <<>> THEN ValueError
        ELSE IF method = "freq" THEN _fit_frequency(decimals)
        ELSE IF method = "grouped_desc" THEN _fit_grouped_descriptive(decimals)
        ELSE IF df_clean_.rows = <<>> \/ df_clean_.columns = <<>> THEN ValueError
        ELSE IF method = "corr" THEN _fit_correlation(df_clean_, decimals, lib)
        ELSE _fit_vif(df_clean_, decimals, lib)

\* StataModel.fit for the basic analyses (the branch of line 146); lib is
\* what scipy and statsmodels return: a correlation and its p-value, and per
\* column a finite or infinite VIF or an exception
FitBasic ==
    /\ pc = "constructed"
    /\ method \in BasicMethods
    /\ \E lib \in [r : {250, 900}, p : {5, 30, 80, 500},
                    vif : IF method = "vif"
                          THEN [NumericColumns -> {Num(1500), Num(2500),
                                                   [kind |-> "inf", v |-> 0],
                                                   [kind |-> "raised", v |-> 0]}]
                          ELSE {[c \in NumericColumns |-> Num(1000)]}] :
         LET out == _fit_basic_analysis(lib)
         IN  IF out = ValueError
             THEN custom_html' = None /\ raised' = "ValueError"
             ELSE custom_html' = out /\ raised' = "none"
    /\ pc' = "fitted"
    /\ UNCHANGED <<data, y_var, x_vars, method, panel_ids, fe_vars, se_options, result,
                   model_stats, df_clean, sample, coeffs>>
    /\ UNCHANGED <<sessionvars, testvars, callervars, servicevars>>

\* The requests of the basic analyses.  The datasets are the first rows of a
\* numeric column with a missing cell or without variation, a constant or
\* varying second one, and categorical columns that are complete, partly
\* missing or empty.
InitBasic ==
    /\ data \in
         LET u == {<<"1", "2", NA, "3", "1", "3">>, <<"2", "2", "2", "2", "2", "2">>}
             w == {<<"1", "1", "1", "1", "1", "1">>, <<"3", "1", "2", NA, "2", "1">>}
             g == {<<"A", "A", "B", "C", "C", "C">>, <<"A", NA, "B", "B", NA, "A">>}
             h == {<<NA, NA, NA, NA, NA, NA>>, <<"B", "A", NA, "A", NA, "C">>}
         IN  {[i \in 1..n |-> [u |-> cu[i], w |-> cw[i], g |-> cg[i], h |-> ch[i]]] :
                 n \in {1, 3, 6}, cu \in u, cw \in w, cg \in g, ch \in h}
    /\ \/ /\ method \in {"corr", "vif"}
          /\ x_vars \in {<<"u">>, <<"u", "w">>, <<"w", "u">>, <<"w", "g">>}
          /\ basic_args \in [decimals : {2, 3}, desc_options : {<<"mean", "std", "min", "max">>},
                              merge_freq_tables : {FALSE}, group_var : {None}]
       \/ /\ method = "freq"
          /\ x_vars \in {<<>>, <<"g">>, <<"h">>, <<"g", "h">>, <<"h", "g">>}
          /\ basic_args \in [decimals : {2, 3}, desc_options : {<<"mean", "std", "min", "max">>},
                              merge_freq_tables : BOOLEAN, group_var : {None}]
       \/ /\ method = "grouped_desc"
          /\ x_vars \in {<<"u">>, <<"w", "u">>, <<"g">>}
          /\ basic_args \in [decimals : {2, 3},
                              desc_options : {<<"mean", "std", "min", "max">>,
                                              <<"nobs", "mean", "std", "min", "max", "p50">>,
                                              <<"count", "p50">>},
                              merge_freq_tables : {FALSE}, group_var : {"g", "h", None}]
    /\ y_var = ""
    /\ panel_ids = [entity |-> None, time |-> None]
    /\ fe_vars = <<>>
    /\ se_options = [type |-> "iid", cluster_var |-> None]
    /\ result = NoResult
    /\ model_stats = NoStats
    /\ custom_html = None
    /\ df_clean = EmptyFrame
    /\ sample = EmptyFrame
    /\ raised = "none"
    /\ coeffs = <<>>
    /\ pc = "constructed"
    /\ NoSession
    /\ NoTest
    /\ NoCallers
    /\ NoCodes /\ NoAdmin

SpecBasic == InitBasic /\ [][FitBasic]_vars

----------------------------------------------------------------------------
(* The e-mail verification codes (EmailService, and the routes
   /send_email_code, /send_login_code, /login_with_code and /register that
   share one instance of it).  The server handles requests in threads: a
   request that checks a code runs verify_code and, when it returned True,
   clear_code, and other requests can run in between.  Time is in minutes.
   What the routes check before they reach the code store (the address, the
   captcha, whether the user exists) is part of the request chosen. *)

MaxSends == 2
MaxTime == 6

_expire_minutes == 5

\* A model on which nothing is fitted
NoModel == Constructed(<<>>, "ols", <<"x1">>, Ids(None, None), <<>>, Se("iid", None))

\* send_verification_code: generate_code() and the store of lines 91-95
send_verification_code ==
    /\ Len(passes) < MaxSends
    /\ \E email \in Emails, code \in {"111111", "222222"} :
         _verification_codes' =
             [_verification_codes EXCEPT
                 ![email] = [stored |-> TRUE, code |-> code,
                             expire_time |-> now + _expire_minutes,
                             serial |-> Len(passes) + 1]]
    /\ passes' = Append(passes, 0)
    /\ UNCHANGED <<now, threads, basic_args, users, admin_reply>>
    /\ UNCHANGED <<modelvars, sessionvars, testvars, callervars>>

\* verify_code, as /login_with_code (line 256) and /register (line 396) call
\* it in thread t; a request it rejects is answered at once
verify_code(t) ==
    /\ threads[t].pc # "verified"
    /\ \E route \in {"login_with_code", "register"}, email \in Emails,
          code \in {"111111", "222222"} :
         LET stored_data == _verification_codes[email]
             answer(pc_) == [threads EXCEPT ![t] = [pc |-> pc_, route |-> route,
                                                    email |-> email]]
         IN  IF ~stored_data.stored
             THEN /\ threads' = answer("rejected")
                  /\ UNCHANGED <<_verification_codes, passes>>
             ELSE IF now > stored_data.expire_time
             THEN /\ _verification_codes' =
                        [_verification_codes EXCEPT
                            ![email] = [stored |-> FALSE, code |-> None,
                                        expire_time |-> 0, serial |-> 0]]
                  /\ threads' = answer("rejected")
                  /\ UNCHANGED passes
             ELSE IF code = stored_data.code
             THEN /\ threads' = answer("verified")
                  /\ passes' = [passes EXCEPT ![stored_data.serial] = @ + 1]
                  /\ UNCHANGED _verification_codes
             ELSE /\ threads' = answer("rejected")
                  /\ UNCHANGED <<_verification_codes, passes>>
    /\ UNCHANGED <<now, basic_args, users, admin_reply>>
    /\ UNCHANGED <<modelvars, sessionvars, testvars, callervars>>

\* clear_code, the next statement of a request whose code was verified
\* (auth.py 260, 400); the rest of the request leaves the store alone
clear_code(t) ==
    /\ threads[t].pc = "verified"
    /\ _verification_codes' =
           [_verification_codes EXCEPT
               ![threads[t].email] = [stored |-> FALSE, code |-> None,
                                      expire_time |-> 0, serial |-> 0]]
    /\ threads' = [threads EXCEPT ![t] = [pc |-> "idle", route |-> None, email |-> None]]
    /\ UNCHANGED <<now, passes, basic_args, users, admin_reply>>
    /\ UNCHANGED <<modelvars, sessionvars, testvars, callervars>>

\* A minute passes
Tick ==
    /\ now < MaxTime
    /\ now' = now + 1
    /\ UNCHANGED <<_verification_codes, threads, passes, basic_args, users, admin_reply>>
    /\ UNCHANGED <<modelvars, sessionvars, testvars, callervars>>

NextCodes ==
    \/ send_verification_code
    \/ \E t \in Threads : verify_code(t) \/ clear_code(t)
    \/ Tick

SpecCodes == NoModel /\ [][NextCodes]_vars

----------------------------------------------------------------------------
(* The user administration (blueprints/admin.py).  A request comes from the
   logged-in user `by` (0: nobody is logged in) and names user_id (0: none
   given); the status is the HTTP status of the answer. *)

\* login_required and admin_required: 0 when the request may proceed
admin_required(by) ==
    IF by = 0 THEN 401
    ELSE IF users[by].role # "admin" THEN 403
    ELSE 0

\* The checks delete_user and toggle_user_status share: 0 when the change is made
RefusedUnlessAdminTarget(by, user_id) ==
    IF admin_required(by) # 0 THEN admin_required(by)
    ELSE IF user_id = 0 THEN 400
    ELSE IF user_id \notin UserIds \/ ~users[user_id].exists THEN 404
    ELSE IF user_id = by THEN 400
    ELSE 0

Refused(by, user_id) ==
    IF admin_required(by) # 0 THEN admin_required(by)
    ELSE IF user_id = 0 THEN 400
    ELSE IF user_id \notin UserIds \/ ~users[user_id].exists THEN 404
    ELSE IF user_id = by THEN 400
    ELSE IF users[user_id].role = "admin" THEN 400
    ELSE 0

\* The requests: from nobody or an existing user, for no id, a user id or an
\* id that was never given out
AdminRequests ==
    {r \in [by : {0} \cup UserIds, user_id : {0, 9} \cup UserIds] :
        r.by = 0 \/ users[r.by].exists}

\* POST /admin/users/delete
delete_user ==
    /\ \E r \in AdminRequests :
         LET status == Refused(r.by, r.user_id)
         IN  /\ users' = IF status # 0 THEN users
                         ELSE [users EXCEPT ![r.user_id].exists = FALSE]
             /\ admin_reply' = [route |-> "delete", by |-> r.by, user_id |-> r.user_id,
                                status |-> IF status = 0 THEN 200 ELSE status]
    /\ UNCHANGED <<basic_args, _verification_codes, now, threads, passes>>
    /\ UNCHANGED <<modelvars, sessionvars, testvars, callervars>>

\* POST /admin/users/toggle
toggle_user_status ==
    /\ \E r \in AdminRequests :
         LET status == Refused(r.by, r.user_id)
         IN  /\ users' = IF status # 0 THEN users
                         ELSE [users EXCEPT ![r.user_id].is_active = ~@]
             /\ admin_reply' = [route |-> "toggle", by |-> r.by, user_id |-> r.user_id,
                                status |-> IF status = 0 THEN 200 ELSE status]
    /\ UNCHANGED <<basic_args, _verification_codes, now, threads, passes>>
    /\ UNCHANGED <<modelvars, sessionvars, testvars, callervars>>

NextAdmin == delete_user \/ toggle_user_status

SpecAdmin == NoModel /\ [][NextAdmin]_vars

----------------------------------------------------------------------------
(* Claims on data preparation and the estimators *)

\* The columns a request names
RequestedCols ==
    ({y_var} \cup Range(x_vars) \cup Range(fe_vars)
      \cup {se_options.cluster_var, panel_ids.entity, panel_ids.time}) \cap Columns

IsSubframe(rows) ==
    /\ Len(rows) <= Len(data)
    /\ \A k \in 1..Len(rows) : rows[k] \in 1..Len(data)
    /\ \A k \in 1..(Len(rows) - 1) : rows[k] < rows[k + 1]
    /\ \A k \in 1..Len(rows) : \A c \in RequestedCols : data[rows[k]][c] # NA

\* C1: the estimation sample has at most as many rows as the input, keeps the
\* input row order, and holds no row with a missing value in a requested column
\* (dependent variable, regressors, panel, fixed-effect and cluster columns).
C1_SampleComplete ==
    pc # "constructed" => IsSubframe(df_clean.rows) /\ IsSubframe(sample.rows)

\* C1 witness: a fit whose preparation dropped a row for a missing cluster cell
\* and kept two rows in order
C1_Witness ==
    /\ pc = "fitted" /\ raised = "none" /\ result # NoResult
    /\ se_options.cluster_var = "g"
    /\ Len(sample.rows) >= 2
    /\ \E i \in 1..Len(data) :
         data[i]["g"] = NA /\ \A k \in 1..Len(sample.rows) : sample.rows[k] # i

PanelFitReached ==
    /\ pc # "constructed"
    /\ method \in {"fe", "re", "pooled"}
    /\ raised # "ValueError:ID"

EntityOf(i) == data[i][panel_ids.entity]

RowsOfEntity(rows, e) == {k \in 1..Len(rows) : EntityOf(rows[k]) = e}

\* C2: after drop_singletons_func (run on the rows left by the missing-value
\* removal) every remaining entity has at least 2 rows, every row of an entity
\* that had at least 2 rows is kept, and a second removal changes nothing.
C2_NoSingletons ==
    PanelFitReached =>
      /\ \A k \in 1..Len(sample.rows) :
           Cardinality(RowsOfEntity(sample.rows, EntityOf(sample.rows[k]))) >= 2
      /\ \A k \in 1..Len(df_clean.rows) :
           Cardinality(RowsOfEntity(df_clean.rows, EntityOf(df_clean.rows[k]))) >= 2
             => \E j \in 1..Len(sample.rows) : sample.rows[j] = df_clean.rows[k]
      /\ drop_singletons_func(sample, panel_ids.entity) = sample

\* C2 witness: a panel fit where a singleton entity was removed and another
\* entity stayed
C2_Witness ==
    /\ PanelFitReached /\ result # NoResult
    /\ Len(sample.rows) >= 2
    /\ Len(sample.rows) < Len(df_clean.rows)

\* The columns OLS / Logit / Probit use: y, the regressors, and the cluster
\* column under the cluster policy
StandardUsedCols ==
    ({y_var} \cup Range(x_vars)
      \cup (IF se_options.type = "cluster" THEN {se_options.cluster_var} ELSE {}))
    \cap Columns

\* C3: for ols/logit/probit a row whose only missing values lie in columns the
\* estimator does not use (panel entity or time, fixed-effect columns, a cluster
\* column under a non-cluster policy) is kept in the estimation sample.
C3_UnusedColumnsKept ==
    (pc # "constructed" /\ method \in {"ols", "logit", "probit"}) =>
      \A i \in 1..Len(data) :
        (\A c \in StandardUsedCols : data[i][c] # NA)
          => \E k \in 1..Len(sample.rows) : sample.rows[k] = i

\* C4: every fit with method 'fe' switches entity effects on, whatever fe_vars is.
C4_FeEntityEffects ==
    (method = "fe" /\ result # NoResult) => result.entity_effects

\* C5: a fit with method fe, re or pooled whose entity or time identifier is
\* missing or empty fails with the Specification error before any estimator is
\* built, and leaves result and model_stats unset.
C5_MissingIdsRejected ==
    ( /\ pc # "constructed"
      /\ method \in {"fe", "re", "pooled"}
      /\ (panel_ids.entity \in {None, ""} \/ panel_ids.time \in {None, ""}) )
    => /\ raised = "ValueError:ID"
       /\ result = NoResult
       /\ model_stats = NoStats
       /\ sample = EmptyFrame

\* C5 witness: a random-effects fit without a time identifier was rejected
C5_Witness ==
    /\ pc = "fitted" /\ method = "re"
    /\ panel_ids.entity = "id" /\ panel_ids.time = None
    /\ raised = "ValueError:ID"

\* C6: a method name outside the eleven known ones is surfaced as an error, and
\* fit never returns normally with neither a fit result nor a diagnostic table.
C6_UnknownMethodRejected ==
    pc = "fitted" =>
      /\ method \notin (RegressionMethods \cup BasicMethods) => raised # "none"
      /\ raised = "none" => (result # NoResult \/ custom_html # None)

CovKind(cov_type) ==
    IF cov_type \in {"unadjusted", "nonrobust"} THEN "classical"
    ELSE IF cov_type \in {"robust", "HC1"} THEN "robust"
    ELSE "clustered"

PolicyKind(type) ==
    IF type = "robust" THEN "robust"
    ELSE IF type = "cluster" THEN "clustered"
    ELSE "classical"

\* C7: every regression variant computes its standard errors with the covariance
\* estimator the policy selects, so a result recorded with se_type 'cluster' was
\* fitted with clustered standard errors.
C7_CovarianceFollowsPolicy ==
    result # NoResult => CovKind(result.cov_type) = PolicyKind(se_options.type)

CompleteRows == {i \in 1..Len(data) : \A c \in RequestedCols : data[i][c] # NA}

\* C8: for an FE fit, N counts the rows complete in the requested columns whose
\* entity has at least two such rows, and the coefficient table has one entry
\* per retained regressor and none for the constant term.
C8_FeCountAndCoeffs ==
    (method = "fe" /\ result # NoResult) =>
      /\ model_stats["N"] =
           Cardinality({i \in CompleteRows :
              Cardinality({j \in CompleteRows : EntityOf(j) = EntityOf(i)}) >= 2})
      /\ pc = "extracted" =>
           /\ Range(coeffs) = Range(result.params) \ {"const"}
           /\ Len(coeffs) = Cardinality(Range(coeffs))
           /\ Range(coeffs) \subseteq Range(x_vars)
           /\ Range(coeffs) \cap {"const", "Constant", "Intercept"} = {}

\* C8 witness: an FE fit that left a singleton entity out of N and extracted the
\* one coefficient row x1
C8_Witness ==
    /\ method = "fe" /\ pc = "extracted" /\ result # NoResult
    /\ model_stats["N"] >= 2
    /\ model_stats["N"] < Len(df_clean.rows)
    /\ coeffs = <<"x1">>

----------------------------------------------------------------------------
(* Claims on the merged table *)

\* The table of the last response, when it is a merged table
Shown == response.kind = "table"

AllKeys == Flatten([i \in 1..Len(analysis_results) |-> CoeffKeys(analysis_results[i])])

FirstPos(v) == CHOOSE k \in 1..Len(AllKeys) :
                  AllKeys[k] = v /\ \A j \in 1..(k - 1) : AllKeys[j] # v

CoefRowsOf(html) == SelectSeq(html.rows, LAMBDA r : r.kind = "coef")

VarRowsOf(html) == SelectSeq(html.rows, LAMBDA r : r.kind \in {"coef", "se"})

HasKey(m, v) == \E k \in 1..Len(m.coeffs) : m.coeffs[k].var = v

EntryOf(m, v) == m.coeffs[CHOOSE k \in 1..Len(m.coeffs) : m.coeffs[k].var = v]

\* C9: the variable rows are the union of the results' variable names, each
\* once, in order of first appearance, the constant after every other variable;
\* each variable has one coefficient row followed by its SE/t row, with an
\* empty cell for each result that lacks the variable.
C9_VariableRows ==
    Shown =>
      LET cr == CoefRowsOf(response.html)
          vr == VarRowsOf(response.html)
          n  == Len(analysis_results)
      IN  /\ {cr[k].label : k \in 1..Len(cr)} = Range(AllKeys)
          /\ \A j, k \in 1..Len(cr) : j # k => cr[j].label # cr[k].label
          /\ \A j, k \in 1..Len(cr) :
               (j < k /\ cr[j].label # "Constant" /\ cr[k].label # "Constant")
                 => FirstPos(cr[j].label) < FirstPos(cr[k].label)
          /\ \A k \in 1..Len(cr) : cr[k].label = "Constant" => k = Len(cr)
          /\ Len(vr) = 2 * Len(cr)
          /\ \A k \in 1..Len(cr) :
               /\ vr[2 * k - 1] = cr[k]
               /\ vr[2 * k].kind = "se"
               /\ Len(cr[k].cells) = n /\ Len(vr[2 * k].cells) = n
               /\ \A i \in 1..n :
                    IF HasKey(analysis_results[i], cr[k].label)
                    THEN /\ cr[k].cells[i] = EntryOf(analysis_results[i], cr[k].label).coef
                         /\ vr[2 * k].cells[i] = EntryOf(analysis_results[i], cr[k].label).se
                    ELSE cr[k].cells[i] = "" /\ vr[2 * k].cells[i] = ""

\* C9 witness: a two-result table whose first result has a constant and whose
\* second brings a variable the first lacks; that row has an empty first cell
\* and stands before the constant row
C9_Witness ==
    /\ Shown /\ Len(analysis_results) = 2
    /\ LET cr == CoefRowsOf(response.html)
       IN  /\ Len(cr) = 3
           /\ cr[1].label = "x1" /\ cr[2].label = "g" /\ cr[3].label = "Constant"
           /\ cr[2].cells[1] = "" /\ cr[2].cells[2] # ""
           /\ cr[3].cells[1] # "" /\ cr[3].cells[2] = ""

\* The rows of a table as seen in column j: the row's kind, the variable,
\* statistic or label it belongs to, and the text of its cell in column j
ColumnOf(html, j) ==
    [k \in 1..Len(html.rows) |->
        <<html.rows[k].kind,
          IF html.rows[k].kind = "se" THEN html.rows[k - 1].label ELSE html.rows[k].label,
          html.rows[k].cells[j]>>]

\* An /analyze that appended a result and reformatted with the options of the
\* table shown before
AppendedSameOptions ==
    /\ response.kind = "table" /\ response'.kind = "table"
    /\ Len(analysis_results) >= 1
    /\ Len(analysis_results') = Len(analysis_results) + 1
    /\ SubSeq(analysis_results', 1, Len(analysis_results)) = analysis_results
    /\ request'.decimals = request.decimals
    /\ request'.show_se = request.show_se
    /\ request'.title = request.title
    /\ request'.export_options = request.export_options

ColumnPreserved(old, new, j) ==
    LET before == ColumnOf(old, j)
        after  == ColumnOf(new, j)
    IN  /\ SelectSeq(after, LAMBDA c : c \in Range(before)) = before
        /\ \A k \in 1..Len(after) :
             after[k] \notin Range(before) => after[k][3] \in {"", "No"}

----------------------------------------------------------------------------
(* Claims on one formatting call *)

\* C11: a second call of generate_merged_html on the very same argument objects
\* (the result list, the options, and the export_options list as the first call
\* left it) returns the table the first call returned.
C11_SameObjectsSameTable ==
    Shown =>
      LET again == generate_merged_html(analysis_results, request.title,
                                        request.decimals, request.show_se,
                                        export_options)
      IN  again.html = response.html

\* C11 witness: a two-column table whose call reordered the caller's
\* export_options list
C11_Witness ==
    /\ Shown /\ Len(analysis_results) = 2
    /\ export_options # request.export_options

StatRowsOf(html) == SelectSeq(html.rows, LAMBDA r : r.kind = "stat")

\* The requested keys that name a statistic some result carries
Carried(o) ==
    /\ o \in DOMAIN stats_map
    /\ \E i \in 1..Len(analysis_results) :
         stats_map[o][2] \in DOMAIN analysis_results[i].stats

KeyOfLabel(l) == CHOOSE o \in DOMAIN stats_map : stats_map[o][1] = l

PosIn(s, v) == CHOOSE k \in 1..Len(s) : s[k] = v

CustomRowsOf(html) == SelectSeq(html.rows, LAMBDA r : r.kind = "custom")

AllLabels ==
    Flatten([i \in 1..Len(analysis_results) |->
                [k \in 1..Len(analysis_results[i].custom_rows) |->
                    analysis_results[i].custom_rows[k].label]])

FirstLabelPos(l) == CHOOSE k \in 1..Len(AllLabels) :
                       AllLabels[k] = l /\ \A j \in 1..(k - 1) : AllLabels[j] # l

Supplied(m, l) == {k \in 1..Len(m.custom_rows) : m.custom_rows[k].label = l}

\* C13: there is one custom row per distinct custom-row label of any result, in
\* first-seen order; a result's cell is the value it supplied for the label,
\* and "No" when it supplied none.
C13_CustomRows ==
    Shown =>
      LET cu == CustomRowsOf(response.html)
          n  == Len(analysis_results)
      IN  /\ {cu[k].label : k \in 1..Len(cu)} = Range(AllLabels)
          /\ \A j, k \in 1..Len(cu) :
               j < k => FirstLabelPos(cu[j].label) < FirstLabelPos(cu[k].label)
          /\ \A k \in 1..Len(cu) : \A i \in 1..n :
               IF Supplied(analysis_results[i], cu[k].label) = {}
               THEN cu[k].cells[i] = "No"
               ELSE \E r \in Supplied(analysis_results[i], cu[k].label) :
                      cu[k].cells[i] = analysis_results[i].custom_rows[r].value

\* C13 witness: two results with different labels give two custom rows, each
\* with one supplied value and one "No"
C13_Witness ==
    /\ Shown /\ Len(analysis_results) = 2
    /\ LET cu == CustomRowsOf(response.html)
       IN  /\ Len(cu) = 2
           /\ cu[1].cells = <<"Yes", "No">>
           /\ cu[2].cells = <<"No", "Yes">>

ClusteredNote == "Standard errors are clustered."

\* C14: the footer of a non-empty table starts with the standard-error line when
\* show_se is true and the t-statistic line otherwise, holds the clustered note
\* exactly when some result's covariance kind is 'cluster', and ends with the
\* three-tier significance legend.
C14_Footer ==
    Shown =>
      LET note == response.html.note
      IN  /\ Len(note) >= 2
          /\ note[1] = (IF request.show_se THEN "Standard errors in parentheses"
                        ELSE "t-statistics in parentheses")
          /\ (ClusteredNote \in Range(note))
               <=> (\E i \in 1..Len(analysis_results) :
                       analysis_results[i].se_type = "cluster")
          /\ note[Len(note)] = "*** p<0.01, ** p<0.05, * p<0.1"

\* C14 witness: t-statistics shown, the first of two results clustered and the
\* second not; the footer has the three lines
C14_Witness ==
    /\ Shown /\ ~request.show_se /\ Len(analysis_results) = 2
    /\ analysis_results[1].se_type = "cluster"
    /\ analysis_results[2].se_type # "cluster"
    /\ Len(response.html.note) = 3

\* C15: after generate_merged_html returns, the export_options list the caller
\* passed holds what it held before the call.
C15_InputsUnchanged ==
    Shown => export_options = request.export_options

----------------------------------------------------------------------------
(* Claims on the caller's result list *)

\* C16: the caller's result list is empty after an upload or a clear_table; it
\* is the single new fit after a regression answered with action 'new'; it is
\* the previous list with the new fit at the end after one answered with action
\* 'append'; it is unchanged by a descriptive/diagnostic analysis, which
\* reports model_count 0; and the model_count a regression returns is the
\* length of the list.
C16_ResultListFollowsRequests ==
    [][/\ response'.kind \in {"uploaded", "cleared"} => analysis_results' = <<>>
       /\ response'.kind = "custom" =>
            /\ analysis_results' = analysis_results
            /\ response'.model_count = 0
       /\ response'.kind = "table" =>
            /\ response'.model_count = Len(analysis_results')
            /\ Len(response'.html.header) = Len(analysis_results')
            /\ request'.action = "new" =>
                 /\ Len(analysis_results') = 1
                 /\ analysis_results'[1] \in TableFits
            /\ request'.action = "append" =>
                 /\ Len(analysis_results') = Len(analysis_results) + 1
                 /\ SubSeq(analysis_results', 1, Len(analysis_results)) = analysis_results
                 /\ analysis_results'[Len(analysis_results')] \in TableFits]_vars

\* C16 witness: an 'append' answered with a table of two different fits and
\* model_count 2
C16_Witness ==
    /\ response.kind = "table" /\ request.action = "append"
    /\ Len(analysis_results) = 2
    /\ analysis_results[1] # analysis_results[2]
    /\ response.model_count = 2

----------------------------------------------------------------------------
(* Claims on two callers *)

\* C17: whatever requests another caller interleaves, the result list of caller
\* "a" and the reply to its last request are what they would be had the other
\* caller made no request.
C17_CallersIsolated ==
    /\ sessions["a"] = solo.session
    /\ replies["a"] = solo.reply

----------------------------------------------------------------------------
(* Claims on the specification tests *)

EntitiesOf(rows) == {data[rows[k]]["id"] : k \in 1..Len(rows)}

\* C18: the F-test result has df1 = #entities - 1 and
\* df2 = n_obs - #entities - #regressors, with the entities and observations
\* of the cleaned, singleton-dropped sample and the regressors the FE fit
\* actually used, F = [(RSS_pooled - RSS_FE)/df1] / [RSS_FE/df2], and carries
\* both RSS values and both counts.
C18_FTestDegreesOfFreedom ==
    test_result.kind = "f_test" =>
      LET r == test_result
      IN  /\ r.sample = TestSample
          /\ r.n_obs = Len(r.sample.rows)
          /\ r.n_entities = Cardinality(EntitiesOf(r.sample.rows))
          /\ r.df1 = r.n_entities - 1
          /\ r.df2 = r.n_obs - r.n_entities - Len(r.fe_exog)
          /\ r.f_num = (LibRss("pooled") - LibRss("fe")) * r.df2
          /\ r.f_den = r.df1 * LibRss("fe")
          /\ r.rss_pooled.kind = "num" /\ r.rss_fe.kind = "num"

\* A result whose p_value is a number
HasPValue ==
    /\ test_result.kind \in {"f_test", "hausman"}
    /\ test_result.p_value.kind = "num"

\* C19: in an F-test or Hausman result with a p-value, the stars and the
\* conclusion are those the thresholds give for the p_value reported in that
\* result: *** below 0.01, ** from 0.01 below 0.05, * from 0.05 below 0.1, and
\* the non-rejection conclusion without a star only for p >= 0.1.
C19_StarsMatchReportedP ==
    HasPValue =>
      LET p == test_result.p_value
          s == test_result.significance
          c == test_result.conclusion
      IN  /\ (s = "***" /\ c = "strong") <=> (p.kind = "num" /\ p.v < 10000)
          /\ (s = "**" /\ c = "reject")
               <=> (p.kind = "num" /\ p.v >= 10000 /\ p.v < 50000)
          /\ (s = "*" /\ c = "weak")
               <=> (p.kind = "num" /\ p.v >= 50000 /\ p.v < 100000)
          /\ (s = "" /\ c = "accept") <=> (p.kind = "num" /\ p.v >= 100000)

HausmanReturned == test_result.kind \in {"hausman", "not_pd", "error"}

\* C20: hausman_test reports a numeric p-value exactly when the statistic H is
\* >= 0; for H < 0 it returns the non-positive-definite variant with |H| as the
\* statistic, both coefficient vectors and the per-coefficient standard-error
\* differences, 'N/A' for the p-value and no stars.
C20_HausmanVariants ==
    HausmanReturned =>
      LET r == test_result
      IN  /\ (r.kind = "hausman") <=> (r.h_stat.kind = "num" /\ r.h_stat.v >= 0)
          /\ r.kind = "hausman" => r.p_value.kind = "num"
          /\ (r.kind = "not_pd") <=> (r.h_stat.kind = "num" /\ r.h_stat.v < 0)
          /\ r.kind = "not_pd" =>
               /\ r.chi2_statistic = Num(Abs(r.h_stat.v))
               /\ r.p_value = NotAvailable
               /\ r.significance = ""
               /\ r.fe_coeffs = r.re_coeffs
               /\ Len(r.fe_coeffs) >= 1
               /\ [k \in 1..Len(r.std_err_diff) |-> r.std_err_diff[k].var] = r.fe_coeffs

\* C20 witness: a negative statistic came back as the non-positive-definite
\* variant over the constant and two regressors
C20_Witness ==
    /\ pc = "tested" /\ test_result.kind = "not_pd"
    /\ test_result.h_stat.v < 0
    /\ test_result.chi2_statistic.v > 0
    /\ Len(test_result.fe_coeffs) = 3

----------------------------------------------------------------------------
(* Claims on the panel covariance options and on failed requests *)

\* C27: an FE, RE or Pooled fit under the cluster policy is given exactly one
\* clustering mode: by entity when the cluster column is the entity identifier,
\* else by time when it is the time identifier, else by the named column; under
\* any other policy it is given none.
C27_OneClusterMode ==
    (result # NoResult /\ method \in {"fe", "re", "pooled"}) =>
      IF se_options.type = "cluster"
      THEN /\ result.cov_type = "clustered"
           /\ Cardinality(result.cluster) = 1
           /\ "cluster_entity" \in result.cluster <=> se_options.cluster_var = panel_ids.entity
           /\ "cluster_time" \in result.cluster
                <=> (se_options.cluster_var # panel_ids.entity
                     /\ se_options.cluster_var = panel_ids.time)
           /\ "clusters" \in result.cluster
                <=> se_options.cluster_var \notin {panel_ids.entity, panel_ids.time}
      ELSE result.cluster = {}

\* C27 witness: a pooled fit clustered on the time identifier
C27_Witness ==
    /\ pc = "fitted" /\ method = "pooled" /\ result # NoResult
    /\ se_options = Se("cluster", "year")
    /\ result.cluster = {"cluster_time"}

\* C28: a request answered with an error leaves the caller's result list as
\* it was before the request, for every method and action.
C28_ErrorLeavesListUnchanged ==
    [][response'.kind = "error" => analysis_results' = analysis_results]_vars

----------------------------------------------------------------------------
(* Claims on the sigmamore option *)

HausmanComputed == test_result.kind \in {"hausman", "not_pd"}

\* C21 as stated: with sigmamore on the FE covariance is multiplied by the
\* square of the ratio of the residual variances, (sigma2_RE / sigma2_FE)^2;
\* with sigmamore off both covariance matrices are each model's own, unscaled.
C21_ScalingSquaredVarianceRatio ==
    HausmanComputed =>
      LET r == test_result
      IN  IF r.cov = "sigmamore"
          THEN r.scaling.num * r.sigma2_fe * r.sigma2_fe
                 = r.scaling.den * r.sigma2_re * r.sigma2_re
          ELSE r.scaling.num = r.scaling.den /\ r.cov_fe = "fe" /\ r.cov_re = "re"

\* C21 amended: with sigmamore on the FE covariance is multiplied by the ratio
\* of the residual variances, sigma2_RE / sigma2_FE (the square of the ratio of
\* the residual standard deviations), sigma2_RE taken from a pooled fit whose
\* covariance also replaces RE's; with sigmamore off both covariance matrices
\* are each model's own, unscaled.
C21_ScalingVarianceRatio ==
    HausmanComputed =>
      LET r == test_result
      IN  IF r.cov = "sigmamore"
          THEN /\ r.scaling.num * r.sigma2_fe = r.scaling.den * r.sigma2_re
               /\ r.cov_fe = "fe" /\ r.cov_re = "pooled"
          ELSE r.scaling.num = r.scaling.den /\ r.cov_fe = "fe" /\ r.cov_re = "re"

\* C21 witness: a sigmamore test with residual variances 4 (FE) and 9 (pooled)
\* scaled the FE covariance by 9/4
C21_Witness ==
    /\ pc = "tested" /\ test_result.kind = "hausman" /\ test_result.cov = "sigmamore"
    /\ test_result.sigma2_fe = 4 /\ test_result.sigma2_re = 9
    /\ test_result.scaling = [num |-> 9, den |-> 4]

----------------------------------------------------------------------------
(* Claims on the basic analyses *)

BasicReturned(m) == pc = "fitted" /\ method = m /\ raised = "none"

\* C22: for every input the correlation analysis accepts, columns without
\* variation included, at 3 decimals every diagonal cell of the matrix is
\* exactly "1.000", without a star; stars are on off-diagonal cells only.
C22_DiagonalOne ==
    (BasicReturned("corr") /\ basic_args.decimals = 3) =>
        \A i \in 1..Len(custom_html.cols) : custom_html.cells[i][i] = "1.000"

\* The variable rows of a VIF table show the VIFs f: "Inf" with tolerance 0
\* for an infinite one, the VIF and 1/VIF at the requested decimals for a
\* finite one, "Error" for one that could not be computed
VifRowsShow(f, cols) ==
    \A k \in 1..Len(cols) :
        /\ Len(custom_html.rows) >= k
        /\ custom_html.rows[k].Variable = cols[k]
        /\ IF f[k] = 0
           THEN custom_html.rows[k].VIF = "Inf" /\ custom_html.rows[k].Tol = "0.000"
           ELSE IF f[k] < 0
           THEN custom_html.rows[k].VIF = "Error"
           ELSE /\ custom_html.rows[k].VIF = FormatFixed(f[k], basic_args.decimals)
                /\ custom_html.rows[k].Tol = FormatRatio(1000, f[k], basic_args.decimals)

\* The row after the variable rows is the Mean VIF row of the finite VIFs of f
MeanRowShows(f, cols) ==
    LET finite == SelectSeq(f, LAMBDA v : v > 0)
        last == custom_html.rows[Len(cols) + 1]
    IN  /\ Len(custom_html.rows) = Len(cols) + 1
        /\ last.Variable = "Mean VIF"
        /\ finite # <<>> =>
             last.VIF = FormatRatio(Sum(finite), 1000 * Len(finite), basic_args.decimals)

\* The VIFs a table can show, in thousandths: 0 for infinite, -1 for failed
ShownVifs(cols) == [1..Len(cols) -> {-1, 0, 1500, 2500}]

SelectedNumeric == SelectSeq(x_vars, LAMBDA c : c \in NumericColumns)

C24_FrequencyTable ==
    (BasicReturned("freq") /\ Len(x_vars) = 1) =>
        LET column == [i \in 1..Len(data) |-> data[i][x_vars[1]]]
            present == {i \in 1..Len(data) : column[i] # NA}
            N == Cardinality(present)
            d == basic_args.decimals
            rows == custom_html.tables[1].rows
            m == Len(rows) - 1
            upto(k) == Cardinality({i \in present :
                                      \E j \in 1..k : column[i] = rows[j].Value})
        IN  /\ Len(custom_html.tables) = 1
            /\ m = Cardinality({column[i] : i \in present})
            /\ \A k \in 1..m :
                 /\ rows[k].Freq = Cardinality({i \in present : column[i] = rows[k].Value})
                 /\ rows[k].Freq > 0
                 /\ rows[k].Percent = FormatRatio(100 * rows[k].Freq, N, d)
                 /\ rows[k].Cum = FormatRatio(100 * upto(k), N, d)
                 /\ k < m => PosIn(ValueOrder, rows[k].Value)
                               < PosIn(ValueOrder, rows[k + 1].Value)
            /\ upto(m) = N
            /\ rows[m].Cum = rows[m + 1].Cum
            /\ rows[m + 1] = [Value |-> "Total", Freq |-> N,
                              Percent |-> IF d = 2 THEN "100.00" ELSE "100.000",
                              Cum |-> IF d = 2 THEN "100.00" ELSE "100.000"]
            /\ (column = <<"A", "A", "B", "C", "C", "C">> /\ d = 2) =>
                 rows = <<[Value |-> "A", Freq |-> 2, Percent |-> "33.33", Cum |-> "33.33"],
                          [Value |-> "B", Freq |-> 1, Percent |-> "16.67", Cum |-> "50.00"],
                          [Value |-> "C", Freq |-> 3, Percent |-> "50.00", Cum |-> "100.00"],
                          [Value |-> "Total", Freq |-> 6, Percent |-> "100.00",
                           Cum |-> "100.00"]>>

\* C24 witness: the table of [A, A, B, C, C, C] at 2 decimals
C24_Witness ==
    /\ BasicReturned("freq") /\ x_vars = <<"g">> /\ basic_args.decimals = 2
    /\ [i \in 1..Len(data) |-> data[i].g] = <<"A", "A", "B", "C", "C", "C">>
    /\ custom_html.tables[1].rows[2].Cum = "50.00"

\* The variables of the tables or of the Subtotal rows of a frequency output
Tabulated ==
    IF custom_html.kind = "freq"
    THEN [k \in 1..Len(custom_html.tables) |-> custom_html.tables[k].var]
    ELSE LET subtotals == SelectSeq(custom_html.rows, LAMBDA r : r.Value = "Subtotal")
         IN  [k \in 1..Len(subtotals) |-> subtotals[k].Variable]

GroupCells(g, var) ==
    {i \in 1..Len(data) : data[i][basic_args.group_var] = g /\ data[i][var] # NA}

\* A group/variable row counts and summarises the values of its group only
RowOfItsGroup(t, r) ==
    LET own == GroupCells(t.group_name, r.Variable)
        n == Cardinality(own)
        values == {Val(data[i][r.Variable]) : i \in own}
        total == Sum([k \in 1..Len(data) |->
                        IF k \in own THEN Val(data[k][r.Variable]) ELSE 0])
        d == basic_args.decimals
        shown(c) == c \in Range(t.columns)
    IN  /\ shown("N") => r.cells["N"] = ToString(n)
        /\ (shown("Mean") /\ n > 0) => r.cells["Mean"] = FormatRatio(total, n, d)
        /\ (shown("Min") /\ n > 0) =>
             \E v \in values : /\ \A x \in values : v <= x
                               /\ r.cells["Min"] = FormatRatio(v, 1, d)
        /\ (shown("Max") /\ n > 0) =>
             \E v \in values : /\ \A x \in values : v >= x
                               /\ r.cells["Max"] = FormatRatio(v, 1, d)
        /\ n = 0 => \A c \in Range(t.columns) \ {"N"} : r.cells[c] = "-"

\* C26 as stated: each group/variable cell is computed from the non-missing
\* values of that variable within that group only; a combination without
\* observations reports count 0 and a blank for every other requested
\* statistic, one with at least one observation a number for every requested
\* statistic.
C26_NumberForEveryStatistic ==
    BasicReturned("grouped_desc") =>
        \A t \in Range(custom_html.tables) : \A r \in Range(t.rows) :
            /\ RowOfItsGroup(t, r)
            /\ GroupCells(t.group_name, r.Variable) # {} =>
                 \A c \in Range(t.columns) : r.cells[c] # "-"

\* C26 amended: each group/variable cell is computed from the non-missing
\* values of that variable within that group only; a combination without
\* observations reports count 0 and a blank for every other requested
\* statistic, one with at least one observation a number for every requested
\* statistic, except that the standard deviation of a single observation is
\* blank.
C26_NumberWhereDefined ==
    BasicReturned("grouped_desc") =>
        \A t \in Range(custom_html.tables) : \A r \in Range(t.rows) :
            /\ RowOfItsGroup(t, r)
            /\ GroupCells(t.group_name, r.Variable) # {} =>
                 \A c \in Range(t.columns) :
                     r.cells[c] = "-" <=>
                       (c = "Std.Dev" /\ Cardinality(GroupCells(t.group_name, r.Variable)) = 1)

\* C26 witness: a group with no value of u and one value of w, next to a
\* group with two values of each
C26_Witness ==
    /\ BasicReturned("grouped_desc") /\ x_vars = <<"w", "u">>
    /\ basic_args.desc_options = <<"nobs", "mean", "std", "min", "max", "p50">>
    /\ \E t \in Range(custom_html.tables) :
         /\ t.rows[2].cells["N"] = "0" /\ t.rows[2].cells["Mean"] = "-"
         /\ t.rows[1].cells["N"] = "1" /\ t.rows[1].cells["Std.Dev"] = "-"
         /\ t.rows[1].cells["Mean"] # "-"
    /\ \E t \in Range(custom_html.tables) :
         t.rows[1].cells["N"] = "2" /\ t.rows[1].cells["Std.Dev"] # "-"

----------------------------------------------------------------------------
(* Claims on the verification codes and the user administration *)

\* C29: a verification code is single-use and time-limited: however send,
\* login_with_code and register requests interleave, a code sent to an
\* address lets at most one request pass verification, never verifies after
\* its 5 minutes (and is removed when checked then), and a newly sent code
\* replaces the previous one for the address.
C29_CodeSingleUseAndTimed ==
    [][/\ \A s \in 1..Len(passes') : passes'[s] <= 1
       /\ \A t \in Threads :
            LET e == _verification_codes[threads'[t].email]
            IN  /\ (threads[t].pc # "verified" /\ threads'[t].pc = "verified") =>
                      e.stored /\ now <= e.expire_time
                /\ (threads'[t] # threads[t] /\ threads'[t].pc = "rejected"
                      /\ e.stored /\ now > e.expire_time) =>
                      ~_verification_codes'[threads'[t].email].stored
       /\ \A a \in Emails :
            (Len(passes') > Len(passes) /\ _verification_codes'[a] # _verification_codes[a]) =>
                /\ _verification_codes'[a].serial = Len(passes')
                /\ _verification_codes'[a].expire_time = now + 5
      ]_vars

\* C30: after any admin delete and toggle requests no account with role
\* 'admin' has been deleted or deactivated and nobody has deleted or
\* deactivated their own account; a rejected request (missing id, unknown
\* user, self, admin target, or a requester who is not an authenticated
\* admin) leaves the user table unchanged.
C30_AdminsAndSelfProtected ==
    [][LET r == admin_reply'
       IN  /\ \A u \in UserIds : users[u].role = "admin" => users'[u] = users[u]
           /\ r.by # 0 => users'[r.by] = users[r.by]
           /\ r.status # 200 => users' = users
           /\ ( \/ r.user_id \notin UserIds
                \/ ~users[r.user_id].exists
                \/ r.user_id = r.by
                \/ users[r.user_id].role = "admin"
                \/ r.by = 0
                \/ users[r.by].role # "admin" ) => r.status # 200
      ]_vars

\* C30 witness: after a user was deleted and another deactivated, an
\* administrator's request to delete their own account was rejected
C30_Witness ==
    /\ ~users[3].exists /\ users[4].exists /\ ~users[4].is_active
    /\ users[1].exists /\ users[1].is_active /\ users[2].exists /\ users[2].is_active
    /\ admin_reply = [route |-> "delete", by |-> 1, user_id |-> 1, status |-> 400]

====
